---- MODULE Spec2Model ----
(***************************************************************************)
(* A model of the EC2 sandbox environment of inspect_ec2_sandbox:          *)
(*   src/src/ec2sandbox/_ec2_sandbox_environment.py                        *)
(*   src/src/ec2sandbox/_unpack_tags.py                                    *)
(* The external services (command relay = SSM, object store = S3, compute  *)
(* control plane = EC2) are the environment of the model: their state is   *)
(* part of the model's state and their answers are nondeterministic.       *)
(*                                                                         *)
(* The specifications share the variables:                                 *)
(*   Spec       exec -> _run_command on one environment                    *)
(*   SpecPrefix _s3_key_prefix called by several invocations               *)
(*   SpecLife   sample_init, sample_cleanup, cli_cleanup                   *)
(*   SpecRead   one read of an object: _read_s3_file_or_blank, read_file   *)
(*   SpecConfig Ec2SandboxEnvironmentConfig construction, unpack_tags      *)
(*   SpecFile   write_file, read_file and exec on one remote file system   *)
(*   SpecShare  exec on two environments that share the bucket             *)
(***************************************************************************)
EXTENDS Integers, Sequences, FiniteSets, TLC

VARIABLES
    clock,      \* the reading of datetime.now(), in microseconds
    bucket,     \* object store: key (string) -> body (sequence of bytes)
    relay,      \* command relay: command id -> invocation response (a dict)
    agent,      \* agent on the instance: command id -> [state, out, err], what the
                \* command has done and the bytes it wrote to stdout and stderr
    call,       \* per environment: the position and locals of _run_command
    log,        \* per environment: the service requests it has issued, in order
    prefixes,   \* SpecPrefix: the invocations that drew a key prefix, in order
    instances,  \* control plane: instance id -> [state, tags]
    inventory,  \* relay inventory answer for the instance being waited for
    init,       \* sample_init: its position and locals
    cleanup,    \* sample_cleanup / cli_cleanup: position and locals
    ec2log,     \* the control-plane requests issued, in order
    rd,         \* SpecRead: position and locals of one read of an object
    cfg,        \* SpecConfig: the last configuration construction and tag decoding
    remote,     \* SpecFile: the instance's file system, path -> directory or file body
    fcall       \* SpecFile: position and locals of write_file / read_file

vars == <<clock, bucket, relay, agent, call, log, prefixes,
          instances, inventory, init, cleanup, ec2log, rd, cfg, remote, fcall>>

execVars == <<bucket, relay, agent, call, log>>
lifeVars == <<instances, inventory, init, cleanup, ec2log>>
fileVars == <<rd, cfg, remote, fcall>>

(***************************************************************************)
(* Bounds of the model.                                                    *)
(***************************************************************************)
\* longest stdout object, in bytes
MaxLen == 3
\* longest stderr object, in bytes
MaxErrLen == 2
\* SandboxEnvironmentLimits.MAX_EXEC_OUTPUT_SIZE (10 MiB in inspect_ai), scaled
MaxExecOutputSize == 2
\* largest explicit timeout a caller passes to exec
MaxTimeout == 2
\* last reading of the clock
MaxClock == 2
\* invocations that draw a key prefix in SpecPrefix
MaxInvocations == 2
\* records in one answer of the relay's inventory
MaxRecords == 2
\* calls of sample_cleanup and cli_cleanup in SpecLife
MaxCleanups == 2

(***************************************************************************)
(* Python helpers.                                                         *)
(***************************************************************************)
\* dict.get(key, default)
DictGet(d, key, default) == IF key \in DOMAIN d THEN d[key] ELSE default

\* "timeout or 3600": None and 0 are both falsy
DefaultTimeout == 3600

NoTimeout == [isNone |-> TRUE, value |-> 0]

IntTimeout(n) == [isNone |-> FALSE, value |-> n]

Timeouts == {NoTimeout} \cup {IntTimeout(n) : n \in 0..MaxTimeout}

\* a mutation: only None gives the default
PyOrNoneOnly(timeout, default) ==
    IF timeout.isNone THEN default ELSE timeout.value

PyOr(timeout, default) ==
    IF timeout.isNone \/ timeout.value = 0 THEN default ELSE timeout.value

\* "executionTimeout": [str(timeout or 3600)] (line 183)
ExecutionTimeout(timeout) == ToString(PyOr(timeout, DefaultTimeout))

\* all sequences over S of length at most n
RECURSIVE SeqsUpTo(_, _)
SeqsUpTo(S, n) ==
    IF n = 0 THEN {<<>>}
    ELSE LET shorter == SeqsUpTo(S, n - 1)
         IN  shorter \cup {Append(s, x) : s \in {t \in shorter : Len(t) = n - 1}, x \in S}

(***************************************************************************)
(* Bytes and text.  A body is a sequence of bytes.  "a", "e" are ASCII     *)
(* bytes; "M" stands for the ASCII phrase                                  *)
(* "failed to run commands: exit status 126"; "L" is the lead byte and "C" *)
(* the continuation byte of one two-byte UTF-8 character, written "LC" as  *)
(* a character of the decoded text.                                        *)
(***************************************************************************)
OutBytes == {"a", "L", "C"}
ErrBytes == {"e", "M"}

StdoutBodies == SeqsUpTo(OutBytes, MaxLen)
StderrBodies == SeqsUpTo(ErrBytes, MaxErrLen)

\* bytes.decode("utf-8") succeeds
RECURSIVE ValidUtf8(_)
ValidUtf8(b) ==
    IF b = <<>> THEN TRUE
    ELSE IF Head(b) = "L"
         THEN Len(b) >= 2 /\ b[2] = "C" /\ ValidUtf8(Tail(Tail(b)))
         ELSE Head(b) # "C" /\ ValidUtf8(Tail(b))

\* bytes.decode("utf-8") of a valid body: the sequence of characters
RECURSIVE Decode(_)
Decode(b) ==
    IF b = <<>> THEN <<>>
    ELSE IF Head(b) = "L"
         THEN <<"LC">> \o Decode(Tail(Tail(b)))
         ELSE <<Head(b)>> \o Decode(Tail(b))

\* str.encode("utf-8"): the bytes of a text ("LC" is the one character of two bytes;
\* a sequence of bytes is left as it is)
RECURSIVE EncodeUtf8(_)
EncodeUtf8(text) ==
    IF text = <<>> THEN <<>>
    ELSE IF Head(text) = "LC"
         THEN <<"L", "C">> \o EncodeUtf8(Tail(text))
         ELSE <<Head(text)>> \o EncodeUtf8(Tail(text))

\* a mutation: the marker is never found
HasMarkerNever(text) == FALSE

\* "failed to run commands: exit status 126" in text
HasMarker(text) == \E i \in 1..Len(text) : text[i] = "M"

\* Range=bytes=0-(limit-1) of a body
FirstBytes(b, limit) == SubSeq(b, 1, IF Len(b) < limit THEN Len(b) ELSE limit)

(***************************************************************************)
(* Environments, configuration and object-store keys.                      *)
(***************************************************************************)
\* the environments (named by their instance id) that share the bucket
Envs == {"i-1", "i-2"}

\* config.s3_key_prefix of every environment
CfgKeyPrefix == "sbx/"

\* random.choices(ascii_letters + digits, k=8): two of the 62^8 outcomes
RandSuffixes == {"aaaaaaaa", "aaaaaaab"}

Operations == {"read_file", "write_file", "exec"}

\* datetime.isoformat() of the clock reading t
IsoFormat(t) == "2026-01-01T00:00:00.00000" \o ToString(t)

\* the prefix without its random part: a mutation of _s3_key_prefix
S3KeyPrefixNoRand(cp, operation, timestamp, rand) ==
    cp \o operation \o "/" \o timestamp \o "-" \o "/"

\* _s3_key_prefix: f"{self.config.s3_key_prefix}{operation}/{timestamp}-{rand}/"
S3KeyPrefix(cp, operation, timestamp, rand) ==
    cp \o operation \o "/" \o timestamp \o "-" \o rand \o "/"

OutputDir == "/awsrunShellScript/0.awsrunShellScript/"

StdoutKey(s3_key_prefix, command_id, instance_id) ==
    s3_key_prefix \o command_id \o "/" \o instance_id \o OutputDir \o "stdout"

StderrKey(s3_key_prefix, command_id, instance_id) ==
    s3_key_prefix \o command_id \o "/" \o instance_id \o OutputDir \o "stderr"

\* f"{s3_key_prefix}{command_id}/"
InvocationPrefix(s3_key_prefix, command_id) == s3_key_prefix \o command_id \o "/"

\* what can follow an invocation prefix in a key of the bucket
KeySuffixes == {e \o OutputDir \o n : e \in Envs, n \in {"stdout", "stderr"}}

\* a mutation: the listing is not restricted to the prefix
StartsWithAnything(key, prefix) == TRUE

\* key.startswith(prefix), for the keys of the bucket
StartsWith(key, prefix) == \E suf \in KeySuffixes : key = prefix \o suf

\* an object of the bucket that belongs to no invocation
ForeignKey == "other/keep"

\* the bucket without the object at key
Without(b, keys) == [k \in DOMAIN b \ keys |-> b[k]]

\* the bucket with body stored at key
With(b, key, body) == [k \in DOMAIN b \cup {key} |-> IF k = key THEN body ELSE b[k]]

(***************************************************************************)
(* _get_s3_file_size and _read_s3_file_or_blank, as one read of the bucket:*)
(* [kind, text] where kind is "ok" or the exception raised.                *)
(***************************************************************************)
\* a mutation: the KeyError of a missing object is not caught
ReadS3FileMissingRaises(b, key, limit_bytes) ==
    IF key \notin DOMAIN b THEN [kind |-> "KeyError", text |-> <<>>]
    ELSE IF Len(b[key]) >= limit_bytes
         THEN [kind |-> "OutputLimitExceededError", text |-> <<>>]
         ELSE IF ValidUtf8(b[key]) THEN [kind |-> "ok", text |-> Decode(b[key])]
              ELSE [kind |-> "UnicodeDecodeError", text |-> <<>>]

ReadS3FileOrBlank(b, key, limit_bytes) ==
    IF key \notin DOMAIN b
    THEN [kind |-> "ok", text |-> <<>>]
    ELSE LET file_size == Len(b[key])
         IN  IF file_size >= limit_bytes
             THEN LET response_body == FirstBytes(b[key], limit_bytes)
                  IN  IF ValidUtf8(response_body)
                      THEN [kind |-> "OutputLimitExceededError",
                            text |-> Decode(response_body)]
                      ELSE [kind |-> "UnicodeDecodeError", text |-> <<>>]
             ELSE IF ValidUtf8(b[key])
                  THEN [kind |-> "ok", text |-> Decode(b[key])]
                  ELSE [kind |-> "UnicodeDecodeError", text |-> <<>>]

(***************************************************************************)
(* The command relay.  An invocation's response is a dict: an error        *)
(* response while the invocation is not yet visible, else Status and       *)
(* (usually) ResponseCode.                                                 *)
(***************************************************************************)
CommandIds == {"cmd-1", "cmd-2"}

NotVisible == [Error |-> "InvocationDoesNotExist"]

Running(status) == [Status |-> status, ResponseCode |-> -1]

\* the waiter's acceptors of command_executed
RetryStatuses == {"Pending", "InProgress", "Delayed"}
FailureStatuses == {"Cancelled", "TimedOut", "Failed", "Cancelling"}

\* the responses of an invocation that has ended
FinalResponses ==
    {[Status |-> "Success", ResponseCode |-> 0], [Status |-> "Success"],
     [Status |-> "Failed", ResponseCode |-> 1], [Status |-> "Failed", ResponseCode |-> 126],
     [Status |-> "Failed"],
     [Status |-> "TimedOut", ResponseCode |-> -1], [Status |-> "TimedOut"],
     [Status |-> "Cancelled", ResponseCode |-> -1]}

(***************************************************************************)
(* exec and _run_command.  call[e] holds the position (pc) and the locals  *)
(* of the call running on environment e.                                   *)
(***************************************************************************)
NoResult == [kind |-> "none"]

\* a mutation: only a positive return code counts as a failure
ExecResultFailsOnPositive(return_code, stdout, stderr) ==
    [kind |-> "ExecResult", success |-> (return_code <= 0),
     returncode |-> return_code, stdout |-> stdout, stderr |-> stderr]

\* lines 365-370
ExecResult(return_code, stdout, stderr) ==
    [kind |-> "ExecResult", success |-> (return_code = 0),
     returncode |-> return_code, stdout |-> stdout, stderr |-> stderr]

IdleCall(pc) ==
    [pc |-> pc, s3_key_prefix |-> "", command_id |-> "",
     timeout |-> NoTimeout, execution_timeout |-> "",
     max_attempts |-> 0, num_attempts |-> 0,
     wait_end |-> "none", last_response |-> NotVisible,
     stdout |-> <<>>, stderr |-> <<>>, return_code |-> 0,
     result |-> NoResult, error |-> "", truncated_output |-> <<>>]

Entry(api, arg) == [api |-> api, arg |-> arg, keys |-> {}]

Issued(e, api, arg) == \E i \in 1..Len(log[e]) : log[e][i].api = api /\ log[e][i].arg = arg

stdout_key(e) == StdoutKey(call[e].s3_key_prefix, call[e].command_id, e)
stderr_key(e) == StderrKey(call[e].s3_key_prefix, call[e].command_id, e)

\* exec (lines 154-190) up to send_command in _run_command (lines 290-309)
Exec(e, timeout, rand) ==
    /\ call[e].pc = "idle"
    /\ \E command_id \in CommandIds \ DOMAIN relay :
         /\ relay' = [c \in DOMAIN relay \cup {command_id} |->
                        IF c = command_id THEN NotVisible ELSE relay[c]]
         /\ agent' = [c \in DOMAIN agent \cup {command_id} |->
                        IF c = command_id
                        THEN [state |-> "running", out |-> <<>>, err |-> <<>>]
                        ELSE agent[c]]
         /\ call' = [call EXCEPT
              ![e].pc = "waiting",
              ![e].s3_key_prefix = S3KeyPrefix(CfgKeyPrefix, "exec", IsoFormat(clock), rand),
              ![e].command_id = command_id,
              ![e].timeout = timeout,
              ![e].execution_timeout = ExecutionTimeout(timeout),
              ![e].max_attempts = PyOr(timeout, DefaultTimeout)]
         /\ log' = [log EXCEPT ![e] = Append(@, Entry("send_command", command_id))]
    /\ UNCHANGED <<fileVars, clock, bucket, prefixes, lifeVars>>

\* the relay moves an invocation that has not ended
RelayProgress(e) ==
    /\ call[e].pc = "waiting"
    /\ LET cur == relay[call[e].command_id]
       IN  \E next \in {"Pending", "Delayed", "InProgress"} :
             /\ \/ cur = NotVisible /\ next = "Pending"
                \/ cur = Running("Pending") /\ next \in {"Delayed", "InProgress"}
                \/ cur = Running("Delayed") /\ next = "InProgress"
             /\ relay' = [relay EXCEPT ![call[e].command_id] = Running(next)]
    /\ UNCHANGED <<fileVars, clock, bucket, agent, call, log, prefixes, lifeVars>>

\* the locals of the wait, which end with it
WaitOver(c) ==
    [c EXCEPT !.num_attempts = 0, !.max_attempts = 0,
              !.timeout = NoTimeout, !.execution_timeout = ""]

\* the waiter's decision on one response (botocore Waiter.wait, called at lines 313-319)
WaiterStep(c, response) ==
    LET n == c.num_attempts + 1
        status == DictGet(response, "Status", "")
    IN  IF status = "Success"
        THEN [WaitOver(c) EXCEPT !.pc = "read_ok", !.wait_end = "success"]
        ELSE IF status \in FailureStatuses
        THEN [WaitOver(c) EXCEPT !.pc = "waiter_error", !.wait_end = "failure",
                                 !.last_response = response]
        ELSE IF n >= c.max_attempts
        THEN [WaitOver(c) EXCEPT !.pc = "waiter_error", !.wait_end = "exhausted",
                                 !.last_response = response]
        ELSE [c EXCEPT !.num_attempts = n]

\* one poll of the waiter that finds the invocation not ended
Poll(e) ==
    /\ call[e].pc = "waiting"
    /\ call' = [call EXCEPT ![e] = WaiterStep(call[e], relay[call[e].command_id])]
    /\ UNCHANGED <<fileVars, clock, bucket, relay, agent, log, prefixes, lifeVars>>

\* the command ends on the instance with this response and the waiter's next poll
\* finds it ended
PollEndedWith(e, final) ==
    /\ call[e].pc = "waiting"
    /\ relay[call[e].command_id] = Running("InProgress")
    /\ relay' = [relay EXCEPT ![call[e].command_id] = final]
    /\ call' = [call EXCEPT ![e] = WaiterStep(call[e], final)]
    /\ agent' = [agent EXCEPT ![call[e].command_id].state = "ended"]
    /\ UNCHANGED <<fileVars, clock, bucket, log, prefixes, lifeVars>>

PollEnded(e) ==
    /\ call[e].pc = "waiting"
    /\ \E final \in FinalResponses : PollEndedWith(e, final)

\* the agent stores what the command wrote to stdout and stderr under the output
\* prefix, an empty stream giving no object; the code reads the outputs after that
AgentStores(e, out, err) ==
    /\ call[e].pc \in {"read_ok", "waiter_error"}
    /\ agent[call[e].command_id].state = "ended"
    /\ agent' = [agent EXCEPT ![call[e].command_id] =
                   [state |-> "stored", out |-> out, err |-> err]]
    /\ bucket' =
         LET b1 == IF out = <<>> THEN bucket ELSE With(bucket, stdout_key(e), out)
         IN  IF err = <<>> THEN b1 ELSE With(b1, stderr_key(e), err)
    /\ UNCHANGED <<fileVars, clock, relay, call, log, prefixes, lifeVars>>

AgentStore(e) ==
    /\ call[e].pc \in {"read_ok", "waiter_error"}
    /\ \E out \in StdoutBodies, err \in StderrBodies : AgentStores(e, out, err)

\* the branch of the WaiterError handler taken at line 341
StillRunning(last_response) ==
    "Status" \in DOMAIN last_response /\ last_response["Status"] = "InProgress"

\* a mutation: the timeout is raised without asking the relay to cancel
CancelCommandSkipped(e) ==
    /\ call[e].pc = "waiter_error"
    /\ StillRunning(call[e].last_response)
    /\ call' = [call EXCEPT ![e].pc = "cancel_sent"]
    /\ UNCHANGED <<fileVars, clock, bucket, relay, agent, log, prefixes, lifeVars>>

\* lines 339-345: cancel_command on a command the relay reports InProgress;
\* a failure of the request propagates out of _run_command
CancelCommand(e) ==
    /\ call[e].pc = "waiter_error"
    /\ StillRunning(call[e].last_response)
    /\ log' = [log EXCEPT ![e] = Append(@, [api |-> "cancel_command",
                                             arg |-> call[e].command_id,
                                             keys |-> {e}])]
    /\ \/ /\ call' = [call EXCEPT ![e].pc = "cancel_sent"]
          /\ relay' = [relay EXCEPT ![call[e].command_id] = Running("Cancelling")]
       \/ /\ call' = [call EXCEPT ![e].pc = "raised", ![e].error = "ClientError"]
          /\ UNCHANGED relay
    /\ UNCHANGED <<fileVars, clock, bucket, agent, prefixes, lifeVars>>

\* line 346
RaiseTimeout(e) ==
    /\ call[e].pc = "cancel_sent"
    /\ call' = [call EXCEPT ![e].pc = "raised", ![e].error = "TimeoutError"]
    /\ UNCHANGED <<fileVars, clock, bucket, relay, agent, log, prefixes, lifeVars>>

\* the two reads of lines 323-328 and 348-353, then the return code and, on the
\* WaiterError path, the permission check of lines 358-359
Retrieve(e, return_code, on_error_path) ==
    LET out == ReadS3FileOrBlank(bucket, stdout_key(e), MaxExecOutputSize)
        err == ReadS3FileOrBlank(bucket, stderr_key(e), MaxExecOutputSize)
        read1 == Entry("read", stdout_key(e))
        read2 == Entry("read", stderr_key(e))
    IN  IF out.kind # "ok"
        THEN /\ call' = [call EXCEPT ![e].pc = "raised", ![e].error = out.kind,
                                     ![e].truncated_output = out.text]
             /\ log' = [log EXCEPT ![e] = Append(@, read1)]
        ELSE IF err.kind # "ok"
        THEN /\ call' = [call EXCEPT ![e].pc = "raised", ![e].error = err.kind,
                                     ![e].stdout = out.text,
                                     ![e].truncated_output = err.text]
             /\ log' = [log EXCEPT ![e] = @ \o <<read1, read2>>]
        ELSE IF on_error_path /\ HasMarker(err.text)
        THEN /\ call' = [call EXCEPT ![e].pc = "raised", ![e].error = "PermissionError",
                                     ![e].stdout = out.text, ![e].stderr = err.text,
                                     ![e].return_code = return_code]
             /\ log' = [log EXCEPT ![e] = @ \o <<read1, read2>>]
        ELSE /\ call' = [call EXCEPT ![e].pc = "delete_stdout",
                                     ![e].stdout = out.text, ![e].stderr = err.text,
                                     ![e].return_code = return_code]
             /\ log' = [log EXCEPT ![e] = @ \o <<read1, read2>>]

\* lines 321-334: the wait succeeded
RetrieveOnSuccess(e) ==
    /\ call[e].pc = "read_ok"
    /\ agent[call[e].command_id].state = "stored"
    /\ Retrieve(e, DictGet(relay[call[e].command_id], "ResponseCode", 0), FALSE)
    /\ UNCHANGED <<fileVars, clock, bucket, relay, agent, prefixes, lifeVars>>

\* a mutation: the WaiterError handler goes on without reading the output objects
RetrieveOnErrorNoRead(e) ==
    /\ call[e].pc = "waiter_error"
    /\ ~StillRunning(call[e].last_response)
    /\ agent[call[e].command_id].state # "ended"
    /\ call' = [call EXCEPT ![e].pc = "delete_stdout", ![e].return_code = 1]
    /\ UNCHANGED <<fileVars, clock, bucket, relay, agent, log, prefixes, lifeVars>>

\* lines 347-359: the wait raised WaiterError and the command is not InProgress
RetrieveOnError(e) ==
    /\ call[e].pc = "waiter_error"
    /\ ~StillRunning(call[e].last_response)
    /\ agent[call[e].command_id].state # "ended"
    /\ Retrieve(e, IF DOMAIN call[e].last_response # {}
                   THEN DictGet(call[e].last_response, "ResponseCode", 1)
                   ELSE 1,
                TRUE)
    /\ UNCHANGED <<fileVars, clock, bucket, relay, agent, prefixes, lifeVars>>

\* a mutation: a failed delete_object is not caught
DeleteS3ObjectPropagates(e, key, next_pc) ==
    /\ log' = [log EXCEPT ![e] = Append(@, Entry("delete_object", key))]
    /\ \/ /\ bucket' = Without(bucket, {key})
          /\ call' = [call EXCEPT ![e].pc = next_pc]
       \/ /\ key \in DOMAIN bucket
          /\ UNCHANGED bucket
          /\ call' = [call EXCEPT ![e].pc = "raised", ![e].error = "ClientError"]

\* _delete_s3_object (lines 260-266): the request deletes the object, or fails and
\* the failure is logged and swallowed
DeleteS3Object(e, key, next_pc) ==
    /\ log' = [log EXCEPT ![e] = Append(@, Entry("delete_object", key))]
    /\ \/ bucket' = Without(bucket, {key})
       \/ key \in DOMAIN bucket /\ UNCHANGED bucket
    /\ call' = [call EXCEPT ![e].pc = next_pc]

\* line 361
DeleteStdout(e) ==
    /\ call[e].pc = "delete_stdout"
    /\ DeleteS3Object(e, stdout_key(e), "delete_stderr")
    /\ UNCHANGED <<fileVars, clock, relay, agent, prefixes, lifeVars>>

\* line 362
DeleteStderr(e) ==
    /\ call[e].pc = "delete_stderr"
    /\ DeleteS3Object(e, stderr_key(e), "delete_prefix")
    /\ UNCHANGED <<fileVars, clock, relay, agent, prefixes, lifeVars>>

\* _delete_s3_prefix (lines 268-284) at line 363, then the return of lines 365-370:
\* the listing finds nothing; or it finds objects and the batch delete removes them or
\* fails; or the listing itself fails.  Every failure is logged and swallowed.
DeletePrefix(e) ==
    /\ call[e].pc = "delete_prefix"
    /\ LET prefix == InvocationPrefix(call[e].s3_key_prefix, call[e].command_id)
           objects == {k \in DOMAIN bucket : StartsWith(k, prefix)}
           list == Entry("list_objects_v2", prefix)
           delete == [api |-> "delete_objects", arg |-> prefix, keys |-> objects]
       IN  \/ /\ objects = {}
              /\ log' = [log EXCEPT ![e] = Append(@, list)]
              /\ UNCHANGED bucket
           \/ /\ objects # {}
              /\ log' = [log EXCEPT ![e] = @ \o <<list, delete>>]
              /\ \/ bucket' = Without(bucket, objects)
                 \/ UNCHANGED bucket
           \/ /\ objects # {}
              /\ log' = [log EXCEPT ![e] = Append(@, list)]
              /\ UNCHANGED bucket
    /\ call' = [call EXCEPT
         ![e].pc = "returned",
         ![e].result = ExecResult(call[e].return_code, call[e].stdout, call[e].stderr)]
    /\ UNCHANGED <<fileVars, clock, relay, agent, prefixes, lifeVars>>

(***************************************************************************)
(* The specification of exec on one environment.                           *)
(***************************************************************************)
Init ==
    /\ clock = 0
    /\ bucket = (ForeignKey :> <<"a">>)
    /\ relay = <<>>
    /\ agent = <<>>
    /\ call = [e \in Envs |-> IdleCall(IF e = "i-1" THEN "idle" ELSE "off")]
    /\ log = [e \in Envs |-> <<>>]
    /\ prefixes = <<>>
    /\ instances = <<>>
    /\ inventory = <<>>
    /\ init = <<>>
    /\ cleanup = <<>>
    /\ ec2log = <<>>
    /\ rd = <<>>
    /\ cfg = <<>>
    /\ remote = <<>>
    /\ fcall = <<>>

Next ==
    \E e \in Envs :
        \/ \E timeout \in Timeouts, rand \in RandSuffixes : Exec(e, timeout, rand)
        \/ RelayProgress(e)
        \/ Poll(e)
        \/ PollEnded(e)
        \/ AgentStore(e)
        \/ CancelCommand(e)
        \/ RaiseTimeout(e)
        \/ RetrieveOnSuccess(e)
        \/ RetrieveOnError(e)
        \/ DeleteStdout(e)
        \/ DeleteStderr(e)
        \/ DeletePrefix(e)

Spec == Init /\ [][Next]_vars

(***************************************************************************)
(* Claims about exec and _run_command (checked under Spec).                *)
(***************************************************************************)
Finished(e) == call[e].pc \in {"returned", "raised"}

\* the completion wait used up its attempts and the last response had this status
Exhausted(e, statuses) ==
    /\ call[e].wait_end = "exhausted"
    /\ "Status" \in DOMAIN call[e].last_response
    /\ call[e].last_response["Status"] \in statuses

CancelIssued(e) ==
    \E i \in 1..Len(log[e]) :
        log[e][i] = [api |-> "cancel_command", arg |-> call[e].command_id, keys |-> {e}]

\* C1: when the completion wait exhausts its attempts while the relay's last status is
\* InProgress, the call never returns an ExecResult, and whenever it has raised (the
\* timeout error in particular) a cancel request for that command id and instance has
\* been issued before.
C1_CancelThenTimeout ==
    \A e \in Envs :
        /\ Exhausted(e, {"InProgress"}) =>
              /\ call[e].pc \in {"waiter_error", "cancel_sent", "raised"}
              /\ call[e].result = NoResult
              /\ call[e].pc = "raised" => CancelIssued(e)
        /\ (call[e].pc = "raised" /\ call[e].error = "TimeoutError") =>
              /\ Exhausted(e, {"InProgress"})
              /\ CancelIssued(e)

C1_Witness ==
    \E e \in Envs :
        /\ Exhausted(e, {"InProgress"})
        /\ call[e].pc = "raised"
        /\ call[e].error = "TimeoutError"
        /\ CancelIssued(e)

CleanupIssued(e) ==
    /\ Issued(e, "delete_object", stdout_key(e))
    /\ Issued(e, "delete_object", stderr_key(e))
    /\ Issued(e, "list_objects_v2", InvocationPrefix(call[e].s3_key_prefix, call[e].command_id))

\* C2 (as claimed): whatever the outcome of an invocation, by the time _run_command
\* returns or raises a delete has been issued for the stdout object, the stderr object
\* and the per-invocation prefix.
C2_CleanupOnEveryOutcome ==
    \A e \in Envs : Finished(e) => CleanupIssued(e)

\* the relay reports the command of e as succeeded with response code 0
SucceededWithZero(e) ==
    /\ call[e].wait_end = "success"
    /\ relay[call[e].command_id] = [Status |-> "Success", ResponseCode |-> 0]

\* the ExecResult of scenario 1: stdout is the content of the stdout object and stderr
\* is "" when there is no stderr object; both objects get a delete
SuccessResult(e) ==
    LET written == agent[call[e].command_id]
    IN  /\ call[e].pc = "returned"
        /\ call[e].result.kind = "ExecResult"
        /\ call[e].result.success
        /\ call[e].result.returncode = 0
        /\ ValidUtf8(written.out)
        /\ call[e].result.stdout = Decode(written.out)
        /\ written.err = <<>> => call[e].result.stderr = <<>>
        /\ Issued(e, "delete_object", stdout_key(e))
        /\ Issued(e, "delete_object", stderr_key(e))

\* C3 (as claimed): whenever the relay reports success with response code 0, exec
\* returns that ExecResult.
C3_SuccessAlwaysReturns ==
    \A e \in Envs : (Finished(e) /\ SucceededWithZero(e)) => SuccessResult(e)

\* the object written for a stream can be returned whole: absent or shorter than the
\* output limit, and valid UTF-8
Returnable(body) == Len(body) < MaxExecOutputSize /\ ValidUtf8(body)

\* C3 (amended): when the relay reports success with response code 0 and the stdout and
\* stderr objects are each absent or below the output limit and valid UTF-8, exec
\* returns ExecResult(success=true, returncode=0, stdout = the content of the stdout
\* object, stderr = "" when the stderr object is absent), and a delete has been issued
\* for both objects.
C3_SuccessReturnsSmallOutput ==
    \A e \in Envs :
        (/\ Finished(e)
         /\ SucceededWithZero(e)
         /\ Returnable(agent[call[e].command_id].out)
         /\ Returnable(agent[call[e].command_id].err)) => SuccessResult(e)

C3_Witness ==
    \E e \in Envs :
        /\ Finished(e)
        /\ SucceededWithZero(e)
        /\ agent[call[e].command_id].out = <<"a">>
        /\ agent[call[e].command_id].err = <<>>
        /\ call[e].result = ExecResult(0, <<"a">>, <<>>)
        /\ stdout_key(e) \notin DOMAIN bucket

\* C4 (as claimed): whenever the completion wait exhausts its attempts with the command
\* Pending, Delayed or InProgress, exec raises and returns no ExecResult.
C4_ExhaustedAlwaysRaises ==
    \A e \in Envs :
        (Finished(e) /\ Exhausted(e, RetryStatuses)) =>
            (call[e].pc = "raised" /\ call[e].result = NoResult)

(***************************************************************************)
(* _s3_key_prefix drawn by several invocations (SpecPrefix).               *)
(***************************************************************************)
\* time passes between two readings of datetime.now()
Tick ==
    /\ clock < MaxClock
    /\ clock' = clock + 1
    /\ UNCHANGED <<fileVars, execVars, prefixes, lifeVars>>

\* lines 571-576, called by exec (186), read_file (417, 447) and write_file (507, 543)
DrawPrefix(e, operation, rand) ==
    /\ Len(prefixes) < MaxInvocations
    /\ prefixes' = Append(prefixes,
                     [env |-> e, operation |-> operation,
                      timestamp |-> IsoFormat(clock), rand |-> rand,
                      prefix |-> S3KeyPrefix(CfgKeyPrefix, operation, IsoFormat(clock), rand)])
    /\ UNCHANGED <<fileVars, clock, execVars, lifeVars>>

InitPrefix ==
    /\ clock = 0
    /\ bucket = (ForeignKey :> <<"a">>)
    /\ relay = <<>>
    /\ agent = <<>>
    /\ call = [e \in Envs |-> IdleCall("off")]
    /\ log = [e \in Envs |-> <<>>]
    /\ prefixes = <<>>
    /\ instances = <<>>
    /\ inventory = <<>>
    /\ init = <<>>
    /\ cleanup = <<>>
    /\ ec2log = <<>>
    /\ rd = <<>>
    /\ cfg = <<>>
    /\ remote = <<>>
    /\ fcall = <<>>

NextPrefix ==
    \/ Tick
    \/ \E e \in Envs, operation \in Operations, rand \in RandSuffixes :
         DrawPrefix(e, operation, rand)

SpecPrefix == InitPrefix /\ [][NextPrefix]_vars

\* C5 (as claimed): any two invocations get different key prefixes.
C5_PrefixesAlwaysDiffer ==
    \A i, j \in 1..Len(prefixes) :
        i # j => prefixes[i].prefix # prefixes[j].prefix

\* C5 (amended): two invocations get different key prefixes whenever they differ in
\* operation, in the timestamp read from the clock or in the random suffix drawn; only
\* invocations that agree on all three get the same prefix.
C5_PrefixesDifferUnlessSameDraw ==
    \A i, j \in 1..Len(prefixes) :
        (\/ prefixes[i].operation # prefixes[j].operation
         \/ prefixes[i].timestamp # prefixes[j].timestamp
         \/ prefixes[i].rand # prefixes[j].rand)
        <=> prefixes[i].prefix # prefixes[j].prefix

\* two invocations of the same operation at the same clock reading, on different
\* environments, kept apart by the random suffix alone
C5_Witness ==
    \E i, j \in 1..Len(prefixes) :
        /\ prefixes[i].env # prefixes[j].env
        /\ prefixes[i].operation = prefixes[j].operation
        /\ prefixes[i].timestamp = prefixes[j].timestamp
        /\ prefixes[i].rand # prefixes[j].rand
        /\ prefixes[i].prefix # prefixes[j].prefix

(***************************************************************************)
(* Tags (_unpack_tags.py) and the compute control plane.                   *)
(***************************************************************************)
MARKER_TAG_KEY == "inspect_sandbox"

\* a mutation: the tags are emitted last to first
ConvertTagsReversed(resource_type, tags_unpacked) ==
    <<[ResourceType |-> resource_type,
       Tags |-> [i \in 1..Len(tags_unpacked) |->
                   [Key |-> tags_unpacked[Len(tags_unpacked) + 1 - i][1],
                    Value |-> tags_unpacked[Len(tags_unpacked) + 1 - i][2]]]]>>

\* convert_tags_for_aws_interface (lines 20-29)
ConvertTagsForAwsInterface(resource_type, tags_unpacked) ==
    <<[ResourceType |-> resource_type,
       Tags |-> [i \in 1..Len(tags_unpacked) |->
                   [Key |-> tags_unpacked[i][1], Value |-> tags_unpacked[i][2]]]]>>

\* config.extra_tags: none, one tag, two tags with the same key
ExtraTagChoices == {<<>>, <<<<"team", "x">>>>, <<<<"k", "1">>, <<"k", "2">>>>}

TaskNames == {"t1"}

\* the tags sample_init builds (lines 99-103)
InstanceTags(extra_tags, task_name) ==
    extra_tags \o <<<<"Name", "inspect_ec2_sandbox_" \o task_name>>,
                    <<"inspect_task", task_name>>,
                    <<MARKER_TAG_KEY, "true">>>>

\* the instance states of the control plane
InstanceStates == {"pending", "running", "shutting-down", "terminated", "stopping", "stopped"}

\* instances of the account before the run: one launched by an earlier sample_init,
\* one that carries the marker key with another value, one unrelated
OldInstance == "i-1"
NewInstance == "i-2"
OffInstance == "i-off"
DbInstance == "i-db"

HasTag(inst, key, values) ==
    \E i \in 1..Len(inst.tags) : inst.tags[i].Key = key /\ inst.tags[i].Value \in values

\* a mutation: the listing is not filtered by instance state
DescribeMarkedAnyState(all) ==
    {id \in DOMAIN all : HasTag(all[id], "inspect_sandbox", {"true"})}

\* describe_instances with the two filters of lines 197-208: the ids of the answer
DescribeMarked(all) ==
    {id \in DOMAIN all :
        /\ HasTag(all[id], MARKER_TAG_KEY, {"true"})
        /\ all[id].state \in {"pending", "running", "stopping", "stopped"}}

\* terminate_instances: the control plane starts shutting the instances down
Terminated(all, ids) ==
    [id \in DOMAIN all |->
        IF id \in ids /\ all[id].state # "terminated"
        THEN [all[id] EXCEPT !.state = "shutting-down"]
        ELSE all[id]]

\* an Ec2SandboxEnvironment, and an environment of another class
Ec2Env(instance_id) == [class |-> "Ec2SandboxEnvironment", instance_id |-> instance_id]
OtherEnv == [class |-> "Other", instance_id |-> ""]

(***************************************************************************)
(* sample_init (lines 86-126) and _wait_for_ssm (lines 35-48).             *)
(***************************************************************************)
\* @retry(stop=stop_after_attempt(20), wait=wait_fixed(30))
StopAfterAttempt == 20
WaitFixed == 30

\* a mutation: one attempt more before giving up
ShouldStopLate(attempt_number) == attempt_number > StopAfterAttempt

\* stop_after_attempt: give up once this many attempts have been made
ShouldStop(attempt_number) == attempt_number >= StopAfterAttempt

PingStatuses == {"Online", "ConnectionLost"}

\* the answers of describe_instance_information
InventoryAnswers == SeqsUpTo(PingStatuses, MaxRecords)

\* lines 43-47: the body of _wait_for_ssm raises "Not ready"
NotReady(resp) == resp = <<>> \/ resp[1] # "Online"

IdleInit ==
    [pc |-> "idle", config |-> "", task_name |-> "", extra_tags |-> <<>>,
     instance_id |-> "", attempt_number |-> 0, slept |-> 0,
     result |-> <<>>, error |-> ""]

\* lines 92-95: the config checks of sample_init that end it at once
SampleInitRejects(config) ==
    /\ init.pc = "idle"
    /\ config = "other"
    /\ init' = [init EXCEPT !.pc = "raised", !.config = config, !.error = "ValueError"]
    /\ UNCHANGED <<fileVars, clock, execVars, prefixes, instances, inventory, cleanup, ec2log>>

\* lines 92-118: run_instances with MinCount=MaxCount=1 and the tags
SampleInitLaunches(config, task_name, extra_tags) ==
    /\ init.pc = "idle"
    /\ config \in {"None", "Ec2SandboxEnvironmentConfig"}
    /\ NewInstance \notin DOMAIN instances
    /\ LET spec == ConvertTagsForAwsInterface("instance", InstanceTags(extra_tags, task_name))
       IN  /\ ec2log' = Append(ec2log,
                          [api |-> "run_instances", MinCount |-> 1, MaxCount |-> 1,
                           TagSpecifications |-> spec, ids |-> {NewInstance}])
           /\ instances' = [id \in DOMAIN instances \cup {NewInstance} |->
                              IF id = NewInstance
                              THEN [state |-> "pending", tags |-> spec[1].Tags]
                              ELSE instances[id]]
    /\ init' = [init EXCEPT !.pc = "wait_running", !.config = config,
                            !.task_name = task_name, !.extra_tags = extra_tags,
                            !.instance_id = NewInstance]
    /\ UNCHANGED <<fileVars, clock, execVars, prefixes, inventory, cleanup>>

\* a mutation: sample_init terminates the instance it launched when the wait gives up
WaitRunningTerminates ==
    /\ init.pc = "wait_running"
    /\ \/ /\ instances[init.instance_id].state = "pending"
          /\ instances' = [instances EXCEPT ![init.instance_id].state = "running"]
          /\ init' = [init EXCEPT !.pc = "wait_ssm"]
          /\ UNCHANGED ec2log
       \/ /\ instances[init.instance_id].state = "running"
          /\ init' = [init EXCEPT !.pc = "wait_ssm"]
          /\ UNCHANGED <<instances, ec2log>>
       \/ /\ init' = [init EXCEPT !.pc = "raised", !.error = "WaiterError"]
          /\ ec2log' = Append(ec2log, [api |-> "terminate_instances",
                                       ids |-> {init.instance_id}])
          /\ instances' = Terminated(instances, {init.instance_id})
    /\ UNCHANGED <<fileVars, clock, execVars, prefixes, inventory, cleanup>>

\* lines 119-122: the instance_running waiter returns, or gives up with WaiterError
WaitRunning ==
    /\ init.pc = "wait_running"
    /\ \/ /\ instances[init.instance_id].state = "pending"
          /\ instances' = [instances EXCEPT ![init.instance_id].state = "running"]
          /\ init' = [init EXCEPT !.pc = "wait_ssm"]
       \/ /\ instances[init.instance_id].state = "running"
          /\ init' = [init EXCEPT !.pc = "wait_ssm"]
          /\ UNCHANGED instances
       \/ /\ init' = [init EXCEPT !.pc = "raised", !.error = "WaiterError"]
          /\ UNCHANGED instances
    /\ UNCHANGED <<fileVars, clock, execVars, prefixes, inventory, cleanup, ec2log>>

\* the agent of the instance registers with the relay, or loses its connection
InventoryChanges ==
    /\ init.pc = "wait_ssm"
    /\ \E answer \in InventoryAnswers : answer # inventory /\ inventory' = answer
    /\ UNCHANGED <<fileVars, clock, execVars, prefixes, instances, init, cleanup, ec2log>>

\* one attempt of _wait_for_ssm under the retry decorator (line 124), and on success
\* the return of line 126 (the retry's counters end with it)
PollInventory ==
    /\ init.pc = "wait_ssm"
    /\ LET n == init.attempt_number + 1
       IN  IF ~NotReady(inventory)
           THEN init' = [init EXCEPT !.pc = "returned", !.attempt_number = 0, !.slept = 0,
                           !.result = [name \in {"default"} |-> Ec2Env(init.instance_id)]]
           ELSE IF ShouldStop(n)
           THEN init' = [init EXCEPT !.pc = "raised", !.attempt_number = n,
                                     !.error = "RetryError"]
           ELSE init' = [init EXCEPT !.attempt_number = n, !.slept = @ + WaitFixed]
    /\ UNCHANGED <<fileVars, clock, execVars, prefixes, instances, inventory, cleanup, ec2log>>

(***************************************************************************)
(* sample_cleanup (lines 130-141) and cli_cleanup (lines 194-254).  Both   *)
(* are modelled whole, as one step; they run before or after sample_init,  *)
(* which awaits nothing and so never yields to another coroutine.          *)
(***************************************************************************)
IdleCleanup ==
    [calls |-> 0, op |-> "", environments |-> <<>>, interrupted |-> FALSE,
     id |-> "", prompted |-> FALSE, confirmed |-> FALSE,
     requests |-> <<>>, outcome |-> "", printed |-> ""]

\* the environments a caller can pass: the one of an earlier sample, one of another
\* class, and the one sample_init returned
KnownEnvironments ==
    <<Ec2Env(OldInstance), OtherEnv>>
    \o (IF init.pc = "returned" THEN <<init.result["default"]>> ELSE <<>>)

\* environments.values() of a dict holding the chosen ones
EnvironmentChoices ==
    {SelectSeq(KnownEnvironments, LAMBDA env : env \in chosen) :
        chosen \in SUBSET {KnownEnvironments[i] : i \in 1..Len(KnownEnvironments)}}

Ec2InstanceIds(environments) ==
    {environments[i].instance_id :
        i \in {j \in 1..Len(environments) : environments[j].class = "Ec2SandboxEnvironment"}}

\* the requests of the loop of lines 138-140, in order
RECURSIVE TerminateEach(_)
TerminateEach(environments) ==
    IF environments = <<>> THEN <<>>
    ELSE (IF Head(environments).class = "Ec2SandboxEnvironment"
          THEN <<[api |-> "terminate_instances", ids |-> {Head(environments).instance_id}]>>
          ELSE <<>>)
         \o TerminateEach(Tail(environments))

CleanupIdle == cleanup.calls < MaxCleanups /\ init.pc \in {"idle", "returned", "raised"}

\* a mutation: the instances are terminated whether or not the run was interrupted
SampleCleanupAlways(environments, interrupted) ==
    /\ CleanupIdle
    /\ ec2log' = ec2log \o TerminateEach(environments)
    /\ instances' = Terminated(instances, Ec2InstanceIds(environments))
    /\ cleanup' = [IdleCleanup EXCEPT !.calls = cleanup.calls + 1, !.op = "sample_cleanup",
                     !.environments = environments, !.interrupted = interrupted,
                     !.requests = TerminateEach(environments),
                     !.outcome = "returned"]
    /\ UNCHANGED <<fileVars, clock, execVars, prefixes, inventory, init>>

\* sample_cleanup
SampleCleanup(environments, interrupted) ==
    /\ CleanupIdle
    /\ IF ~interrupted
       THEN /\ ec2log' = ec2log \o TerminateEach(environments)
            /\ instances' = Terminated(instances, Ec2InstanceIds(environments))
       ELSE UNCHANGED <<ec2log, instances>>
    /\ cleanup' = [IdleCleanup EXCEPT !.calls = cleanup.calls + 1, !.op = "sample_cleanup",
                     !.environments = environments, !.interrupted = interrupted,
                     !.requests = IF interrupted THEN <<>> ELSE TerminateEach(environments),
                     !.outcome = "returned"]
    /\ UNCHANGED <<fileVars, clock, execVars, prefixes, inventory, init>>

\* cli_cleanup; id is "None" or an id, answer is what Confirm.ask returns
CliCleanup(id, is_interactive_shell, is_ci, is_pytest, answer) ==
    /\ CleanupIdle
    /\ LET ids == DescribeMarked(instances)
           prompted == is_interactive_shell /\ ~is_ci /\ ~is_pytest
           done == [IdleCleanup EXCEPT !.calls = cleanup.calls + 1, !.op = "cli_cleanup",
                                       !.id = id, !.outcome = "returned"]
       IN  IF id # "None"
           THEN /\ cleanup' = [done EXCEPT !.printed = "Cleanup by ID not implemented"]
                /\ UNCHANGED <<ec2log, instances>>
           ELSE IF ids = {}
           THEN /\ cleanup' = [done EXCEPT
                                 !.printed = "No EC2 sandbox instances found to clean up."]
                /\ UNCHANGED <<ec2log, instances>>
           ELSE IF prompted /\ ~answer
           THEN /\ cleanup' = [done EXCEPT !.prompted = TRUE, !.printed = "Cancelled."]
                /\ UNCHANGED <<ec2log, instances>>
           ELSE /\ cleanup' = [done EXCEPT
                                 !.prompted = prompted, !.confirmed = prompted,
                                 !.requests = <<[api |-> "terminate_instances", ids |-> ids]>>,
                                 !.printed = "table"]
                /\ ec2log' = Append(ec2log, [api |-> "terminate_instances", ids |-> ids])
                /\ instances' = Terminated(instances, ids)
    /\ UNCHANGED <<fileVars, clock, execVars, prefixes, inventory, init>>

(***************************************************************************)
(* The specification of the instance life cycle.                           *)
(***************************************************************************)
InitLife ==
    /\ clock = 0
    /\ bucket = (ForeignKey :> <<"a">>)
    /\ relay = <<>>
    /\ agent = <<>>
    /\ call = [e \in Envs |-> IdleCall("off")]
    /\ log = [e \in Envs |-> <<>>]
    /\ prefixes = <<>>
    /\ \E old \in InstanceStates :
         instances =
           [id \in {OldInstance, OffInstance, DbInstance} |->
              IF id = OldInstance
              THEN [state |-> old,
                    tags |-> ConvertTagsForAwsInterface("instance",
                                 InstanceTags(<<>>, "t0"))[1].Tags]
              ELSE IF id = OffInstance
              THEN [state |-> "running",
                    tags |-> <<[Key |-> MARKER_TAG_KEY, Value |-> "false"]>>]
              ELSE [state |-> "running", tags |-> <<[Key |-> "Name", Value |-> "db"]>>]]
    /\ inventory = <<>>
    /\ init = IdleInit
    /\ cleanup = IdleCleanup
    /\ ec2log = <<>>
    /\ rd = <<>>
    /\ cfg = <<>>
    /\ remote = <<>>
    /\ fcall = <<>>

NextLife ==
    \/ SampleInitRejects("other")
    \/ \E config \in {"None", "Ec2SandboxEnvironmentConfig"},
          task_name \in TaskNames, extra_tags \in ExtraTagChoices :
            SampleInitLaunches(config, task_name, extra_tags)
    \/ WaitRunning
    \/ InventoryChanges
    \/ PollInventory
    \/ \E environments \in EnvironmentChoices, interrupted \in BOOLEAN :
            SampleCleanup(environments, interrupted)
    \/ \E id \in {"None", OldInstance},
          is_interactive_shell \in BOOLEAN, is_ci \in BOOLEAN,
          is_pytest \in BOOLEAN, answer \in BOOLEAN :
            CliCleanup(id, is_interactive_shell, is_ci, is_pytest, answer)

SpecLife == InitLife /\ [][NextLife]_vars

(***************************************************************************)
(* Claims about the instance life cycle (checked under SpecLife).          *)
(***************************************************************************)
\* C6: the readiness wait makes at most 20 inventory polls, sleeping 30 after every
\* poll but the last; when the 20th poll is not ready either it raises, and a
\* sample_init that has raised has returned no environment.
C6_ReadinessWaitBounded ==
    /\ init.attempt_number <= 20
    /\ init.pc = "wait_ssm" =>
          /\ init.attempt_number < 20
          /\ init.slept = 30 * init.attempt_number
    /\ (init.pc = "raised" /\ init.error = "RetryError") =>
          /\ init.attempt_number = 20
          /\ init.slept = 30 * 19
    /\ init.pc = "raised" => init.result = <<>>

C6_Witness ==
    /\ init.pc = "raised"
    /\ init.error = "RetryError"
    /\ init.attempt_number = 20
    /\ NotReady(inventory)

RunInstancesRequests == {i \in 1..Len(ec2log) : ec2log[i].api = "run_instances"}

\* the tag list of C7 for the tags the caller passed: the caller's tags in their order,
\* then Name, the task tag and the marker tag
TagsAsClaimed(tags, extra_tags, task_name) ==
    LET n == Len(extra_tags)
    IN  /\ Len(tags) = n + 3
        /\ \A i \in 1..n : tags[i] = [Key |-> extra_tags[i][1], Value |-> extra_tags[i][2]]
        /\ tags[n + 1].Key = "Name"
        /\ tags[n + 2] = [Key |-> "inspect_task", Value |-> task_name]
        /\ tags[n + 3] = [Key |-> "inspect_sandbox", Value |-> "true"]

\* C7: a sample_init that has returned has issued exactly one run_instances request,
\* for exactly one instance (MinCount = MaxCount = 1), tagged with the caller's extra
\* tags followed by Name, the task tag and inspect_sandbox=true, and has returned
\* exactly one environment, under "default", bound to the id of that instance.
C7_OneTaggedInstanceOneEnvironment ==
    init.pc = "returned" =>
        /\ Cardinality(RunInstancesRequests) = 1
        /\ \A i \in RunInstancesRequests :
              /\ ec2log[i].MinCount = 1
              /\ ec2log[i].MaxCount = 1
              /\ Len(ec2log[i].TagSpecifications) = 1
              /\ ec2log[i].TagSpecifications[1].ResourceType = "instance"
              /\ TagsAsClaimed(ec2log[i].TagSpecifications[1].Tags,
                               init.extra_tags, init.task_name)
              /\ DOMAIN init.result = {"default"}
              /\ ec2log[i].ids = {init.result["default"].instance_id}
              /\ init.result["default"].class = "Ec2SandboxEnvironment"
              /\ TagsAsClaimed(instances[init.result["default"].instance_id].tags,
                               init.extra_tags, init.task_name)

C7_Witness ==
    /\ init.pc = "returned"
    /\ init.extra_tags = <<<<"k", "1">>, <<"k", "2">>>>
    /\ init.result["default"].instance_id = NewInstance

\* the instances that bear the marker tag and are not terminated
MarkedLive(all) ==
    {id \in DOMAIN all :
        /\ \E i \in 1..Len(all[id].tags) :
              all[id].tags[i] = [Key |-> "inspect_sandbox", Value |-> "true"]
        /\ all[id].state \in {"pending", "running", "stopping", "stopped"}}

\* the instance ids the terminate requests of a call name
RequestedIds(requests) == UNION {requests[i].ids : i \in 1..Len(requests)}

\* C8: a sample_cleanup with interrupted=false issues a terminate request for the
\* instance of every environment it is given, and none of them is then listed as a
\* non-terminated marker-tagged instance; with interrupted=true it issues no request
\* and leaves every instance as it was.
C8_SampleCleanupTerminatesUnlessInterrupted ==
    [][(cleanup'.calls = cleanup.calls + 1 /\ cleanup'.op = "sample_cleanup") =>
         LET given == {cleanup'.environments[i].instance_id :
                          i \in {j \in 1..Len(cleanup'.environments) :
                                   cleanup'.environments[j].class = "Ec2SandboxEnvironment"}}
         IN  IF cleanup'.interrupted
             THEN /\ cleanup'.requests = <<>>
                  /\ ec2log' = ec2log
                  /\ instances' = instances
             ELSE /\ RequestedIds(cleanup'.requests) = given
                  /\ ec2log' = ec2log \o cleanup'.requests
                  /\ given \cap MarkedLive(instances') = {}
                  /\ \A id \in DOMAIN instances \ given : instances'[id] = instances[id]
      ]_vars

C8_Witness ==
    /\ cleanup.op = "sample_cleanup"
    /\ ~cleanup.interrupted
    /\ cleanup.environments = <<Ec2Env(OldInstance), OtherEnv, Ec2Env(NewInstance)>>
    /\ Len(cleanup.requests) = 2
    /\ instances[OldInstance].state = "shutting-down"
    /\ instances[NewInstance].state = "shutting-down"

\* C9: a cli_cleanup with no id that is confirmed, or not prompted, issues exactly one
\* terminate request, whose ids are exactly the marker-tagged instances in state
\* pending, running, stopping or stopped; no other instance changes; when there is no
\* such instance or the confirmation is declined it issues no request.
C9_CliCleanupTerminatesMarkedLive ==
    [][(cleanup'.calls = cleanup.calls + 1 /\ cleanup'.op = "cli_cleanup"
        /\ cleanup'.id = "None") =>
         LET live == MarkedLive(instances)
             declined == cleanup'.prompted /\ ~cleanup'.confirmed
         IN  IF live = {} \/ declined
             THEN /\ cleanup'.requests = <<>>
                  /\ ec2log' = ec2log
                  /\ instances' = instances
             ELSE /\ cleanup'.requests = <<[api |-> "terminate_instances", ids |-> live]>>
                  /\ ec2log' = ec2log \o cleanup'.requests
                  /\ \A id \in live : instances'[id].state = "shutting-down"
                  /\ \A id \in DOMAIN instances \ live : instances'[id] = instances[id]
      ]_vars

C9_Witness ==
    /\ cleanup.op = "cli_cleanup"
    /\ cleanup.id = "None"
    /\ cleanup.prompted /\ cleanup.confirmed
    /\ cleanup.requests = <<[api |-> "terminate_instances",
                             ids |-> {OldInstance, NewInstance}]>>
    /\ instances[OffInstance].state = "running"
    /\ instances[DbInstance].state = "running"

\* C10 (as claimed): a cli_cleanup called with an id fails with a not-implemented error
\* instead of completing normally, and issues no terminate request.
C10_CleanupByIdFails ==
    (cleanup.op = "cli_cleanup" /\ cleanup.id # "None") =>
        /\ cleanup.outcome = "raised"
        /\ cleanup.requests = <<>>

\* C23 (as claimed): sample_init returns an environment only after an inventory poll
\* answered with exactly one record, whose status is Online; an answer of no record, of
\* more than one record or with another status counts as not ready.
C23_ReadyOnlyOnOneOnlineRecord ==
    init.pc = "returned" => (Len(inventory) = 1 /\ inventory[1] = "Online")

\* the requests a step adds to the log of the control plane name the instance
NewlyRequested(id) ==
    \E i \in (Len(ec2log) + 1)..Len(ec2log') :
        ec2log'[i].api = "terminate_instances" /\ id \in ec2log'[i].ids

\* C31: when the wait for the running state or the readiness wait fails after the
\* launch, sample_init raises with no environment returned, no request issued and the
\* launched instance left as it is, a marker-tagged instance that is not terminated;
\* after that, the only step that names the instance in a terminate request or changes
\* it is a cli_cleanup with no id, the bulk cleanup by marker tag.
C31_FailedWaitLeavesInstanceToBulkCleanup ==
    [][/\ (init.pc \in {"wait_running", "wait_ssm"} /\ init'.pc = "raised") =>
             /\ init'.error \in {"WaiterError", "RetryError"}
             /\ init'.result = <<>>
             /\ ec2log' = ec2log
             /\ instances' = instances
             /\ init'.instance_id \in MarkedLive(instances')
             /\ instances'[init'.instance_id].state \in {"pending", "running"}
       /\ (/\ init.pc = "raised"
           /\ init.instance_id # ""
           /\ \/ NewlyRequested(init.instance_id)
              \/ instances'[init.instance_id] # instances[init.instance_id]) =>
             /\ cleanup'.calls = cleanup.calls + 1
             /\ cleanup'.op = "cli_cleanup"
             /\ cleanup'.id = "None"
             /\ init.instance_id \in RequestedIds(cleanup'.requests)
             /\ instances'[init.instance_id].state = "shutting-down"
      ]_vars

C31_Witness ==
    /\ init.pc = "raised"
    /\ init.error = "RetryError"
    /\ init.result = <<>>
    /\ instances[init.instance_id].state = "shutting-down"
    /\ cleanup.calls = 2
    /\ cleanup.op = "cli_cleanup"
    /\ ec2log = <<ec2log[1], [api |-> "terminate_instances", ids |-> {init.instance_id}]>>

(***************************************************************************)
(* SpecRead: one read of one object, request by request.  The size probe   *)
(* (head_object) and the content fetch (get_object) are separate requests, *)
(* and another party may delete the object between them.  Two readers:     *)
(*   "exec"      _read_s3_file_or_blank, the stdout / stderr objects       *)
(*   "read_file" the fetch of the uploaded file object in read_file        *)
(* The object store answers a request for a missing key with 404 /         *)
(* NoSuchKey.                                                              *)
(***************************************************************************)
\* the key read
ReadKey == "sbx/read/object"

\* the limits passed (both call sites pass a positive constant)
ReadLimits == 1..(MaxLen + 1)

ReadPaths == {"exec", "read_file"}

NoneOutput == [isNone |-> TRUE, value |-> <<>>]

\* _get_s3_file_size: ContentLength, or KeyError on a 404
GetS3FileSize(b, key) ==
    IF key \in DOMAIN b
    THEN [kind |-> "ok", size |-> Len(b[key])]
    ELSE [kind |-> "KeyError", size |-> 0]

\* s3_client.get_object without Range
GetObject(b, key) ==
    IF key \in DOMAIN b
    THEN [kind |-> "ok", body |-> b[key]]
    ELSE [kind |-> "NoSuchKey", body |-> <<>>]

\* s3_client.get_object with Range=bytes=0-(limit_bytes - 1)
GetObjectRange(b, key, limit_bytes) ==
    IF key \in DOMAIN b
    THEN [kind |-> "ok", body |-> FirstBytes(b[key], limit_bytes)]
    ELSE [kind |-> "NoSuchKey", body |-> <<>>]

\* a mutation: only the KeyError of the size probe is caught
CaughtKeyErrorOnly(kind) == kind = "KeyError"

\* except (self.s3_client.exceptions.NoSuchKey, KeyError)
CaughtMissing(kind) == kind \in {"NoSuchKey", "KeyError"}

IdleRead ==
    [pc |-> "idle", path |-> "", text |-> FALSE, limit_bytes |-> 0, file_size |-> 0,
     kind |-> "", body |-> <<>>, truncated_output |-> NoneOutput, probed |-> <<>>]

notRead == <<clock, relay, agent, call, log, prefixes, lifeVars, cfg, remote, fcall>>

\* the call: _read_s3_file_or_blank(key, limit_bytes), or read_file after its upload
ReadStarts(path, text, limit_bytes) ==
    /\ rd.pc = "idle"
    /\ path = "exec" => text
    /\ rd' = [rd EXCEPT !.pc = "probe", !.path = path, !.text = text,
                        !.limit_bytes = limit_bytes]
    /\ UNCHANGED <<bucket, notRead>>

\* what a missing object ends the read with
ReadMissing(r, kind) ==
    IF r.path = "exec"
    THEN IF CaughtMissing(kind)
         THEN [r EXCEPT !.pc = "returned", !.kind = "ok", !.body = <<>>]
         ELSE [r EXCEPT !.pc = "raised", !.kind = kind]
    ELSE [r EXCEPT !.pc = "raised", !.kind = "FileNotFoundError"]

\* file_size = self._get_s3_file_size(key)
ReadProbe ==
    /\ rd.pc = "probe"
    /\ LET size == GetS3FileSize(bucket, ReadKey)
       IN  rd' = IF size.kind = "ok"
                 THEN [rd EXCEPT !.pc = "fetch", !.file_size = size.size,
                                 !.probed = bucket[ReadKey]]
                 ELSE ReadMissing(rd, size.kind)
    /\ UNCHANGED <<bucket, notRead>>

\* another party deletes the object while the read is under way
ObjectVanishes ==
    /\ rd.pc \in {"probe", "fetch"}
    /\ ReadKey \in DOMAIN bucket
    /\ bucket' = Without(bucket, {ReadKey})
    /\ UNCHANGED <<rd, notRead>>

\* the content fetch of _read_s3_file_or_blank and what it returns or raises
FetchForExec(r, b) ==
    IF r.file_size >= r.limit_bytes
    THEN LET response == GetObjectRange(b, ReadKey, r.limit_bytes)
         IN  IF response.kind # "ok" THEN ReadMissing(r, response.kind)
             ELSE IF ValidUtf8(response.body)
                  THEN [r EXCEPT !.pc = "raised", !.kind = "OutputLimitExceededError",
                                 !.truncated_output =
                                     [isNone |-> FALSE, value |-> Decode(response.body)]]
                  ELSE [r EXCEPT !.pc = "raised", !.kind = "UnicodeDecodeError"]
    ELSE LET response == GetObject(b, ReadKey)
         IN  IF response.kind # "ok" THEN ReadMissing(r, response.kind)
             ELSE IF ValidUtf8(response.body)
                  THEN [r EXCEPT !.pc = "returned", !.kind = "ok",
                                 !.body = Decode(response.body)]
                  ELSE [r EXCEPT !.pc = "raised", !.kind = "UnicodeDecodeError"]

\* the content fetch of read_file; "delete" tells whether line 490 is reached
FetchForReadFile(r, b) ==
    IF r.file_size >= r.limit_bytes
    THEN LET response == GetObjectRange(b, ReadKey, r.limit_bytes)
         IN  IF response.kind # "ok" THEN ReadMissing(r, response.kind)
             ELSE [r EXCEPT !.pc = "raised", !.kind = "OutputLimitExceededError",
                            !.truncated_output = NoneOutput]
    ELSE LET response == GetObject(b, ReadKey)
         IN  IF response.kind # "ok" THEN ReadMissing(r, response.kind)
             ELSE IF ~r.text
                  THEN [r EXCEPT !.pc = "returned", !.kind = "ok",
                                 !.body = response.body]
                  ELSE IF ValidUtf8(response.body)
                       THEN [r EXCEPT !.pc = "returned", !.kind = "ok",
                                      !.body = Decode(response.body)]
                       ELSE [r EXCEPT !.pc = "raised", !.kind = "UnicodeDecodeError"]

ReadFetch ==
    /\ rd.pc = "fetch"
    /\ IF rd.path = "exec"
       THEN /\ rd' = FetchForExec(rd, bucket)
            /\ UNCHANGED bucket
       ELSE /\ rd' = FetchForReadFile(rd, bucket)
            \* self._delete_s3_object(file_key), reached when the fetch did not raise
            /\ bucket' = IF rd.file_size < rd.limit_bytes /\ ReadKey \in DOMAIN bucket
                         THEN Without(bucket, {ReadKey})
                         ELSE bucket
    /\ UNCHANGED notRead

InitRead ==
    /\ clock = 0
    /\ \E present \in BOOLEAN, body \in StdoutBodies :
         bucket = IF present
                  THEN (ForeignKey :> <<"a">>) @@ (ReadKey :> body)
                  ELSE (ForeignKey :> <<"a">>)
    /\ relay = <<>>
    /\ agent = <<>>
    /\ call = [e \in Envs |-> IdleCall("off")]
    /\ log = [e \in Envs |-> <<>>]
    /\ prefixes = <<>>
    /\ instances = <<>>
    /\ inventory = <<>>
    /\ init = <<>>
    /\ cleanup = <<>>
    /\ ec2log = <<>>
    /\ rd = IdleRead
    /\ cfg = <<>>
    /\ remote = <<>>
    /\ fcall = <<>>

NextRead ==
    \/ \E path \in ReadPaths, text \in BOOLEAN, limit_bytes \in ReadLimits :
         ReadStarts(path, text, limit_bytes)
    \/ ReadProbe
    \/ ObjectVanishes
    \/ ReadFetch

SpecRead == InitRead /\ [][NextRead]_vars

ReadDone == rd.pc \in {"returned", "raised"}

ReadFound ==
    /\ ReadDone
    /\ IF rd.path = "exec" THEN ReadKey \in DOMAIN bucket ELSE rd.kind # "FileNotFoundError"

\* C12 (as claimed, for objects that are valid UTF-8 text on the exec-output path and
\* for binary reads on the file-read path): an object of size below the limit is
\* returned in full; an object of size equal to or above the limit raises
\* OutputLimitExceededError, carrying exactly the first limit bytes on the exec-output
\* path and no content on the file-read path.
C12_SizeDecidesTruncation ==
    (/\ ReadFound
     /\ rd.path = "exec" => ValidUtf8(rd.probed)
     /\ rd.path = "read_file" => ~rd.text) =>
        IF Len(rd.probed) < rd.limit_bytes
        THEN /\ rd.pc = "returned"
             /\ rd.kind = "ok"
             /\ EncodeUtf8(rd.body) = rd.probed
        ELSE /\ rd.pc = "raised"
             /\ rd.kind = "OutputLimitExceededError"
             /\ IF rd.path = "exec"
                THEN /\ ~rd.truncated_output.isNone
                     /\ EncodeUtf8(rd.truncated_output.value) =
                            SubSeq(rd.probed, 1, rd.limit_bytes)
                ELSE rd.truncated_output.isNone

(***************************************************************************)
(* SpecConfig: unpack_tags, convert_tags_for_aws_interface and the ways an *)
(* Ec2SandboxEnvironmentConfig is built.  A str is a sequence of           *)
(* characters; an Optional[str] is [isNone, value].  The calls do not      *)
(* depend on one another: a behaviour makes one call.                      *)
(***************************************************************************)
\* longest tag string passed to unpack_tags
MaxTagLen == 6

TagChars == {"k", "v", "=", ";"}

TagStrings == SeqsUpTo(TagChars, MaxTagLen)

NoneStr == [isNone |-> TRUE, value |-> <<>>]

Str(value) == [isNone |-> FALSE, value |-> value]

\* str.split(sep) for a one-character sep
RECURSIVE Split(_, _)
Split(str, sep) ==
    IF \A i \in 1..Len(str) : str[i] # sep
    THEN <<str>>
    ELSE LET i == CHOOSE j \in 1..Len(str) :
                      str[j] = sep /\ \A h \in 1..(j - 1) : str[h] # sep
         IN  <<SubSeq(str, 1, i - 1)>> \o Split(SubSeq(str, i + 1, Len(str)), sep)

\* the message of the ValueError of unpack_tags: the string literal of lines 14-15,
\* which is not an f-string, so it ends with the characters {tags}
UnpackTagsMessage ==
    <<"T","a","g","s"," ","m","u","s","t"," ","b","e"," ","i","n"," ","t","h","e"," ",
      "f","o","r","m","a","t"," ","'","k","e","y","1","=","v","a","l","u","e","1",";",
      "k","e","y","2","=","v","a","l","u","e","2","'",","," ",
      "b","u","t"," ","i","n","s","t","e","a","d"," ","g","o","t"," ",
      "{","t","a","g","s","}">>

\* a mutation: of several pairs with one key only the last is kept
UnpackTagsLastWins(tags) ==
    IF tags.isNone \/ tags.value = <<>>
    THEN [kind |-> "ok", tags_unpacked |-> <<>>, message |-> <<>>]
    ELSE LET tags_list == Split(tags.value, ";")
             parts == [i \in 1..Len(tags_list) |-> Split(tags_list[i], "=")]
         IN  IF \E i \in 1..Len(parts) : Len(parts[i]) # 2
             THEN [kind |-> "ValueError", tags_unpacked |-> <<>>,
                   message |-> UnpackTagsMessage]
             ELSE [kind |-> "ok",
                   tags_unpacked |->
                       SelectSeq([i \in 1..Len(parts) |-> <<parts[i][1], parts[i][2], i>>],
                                 LAMBDA p : \A j \in (p[3] + 1)..Len(parts) :
                                               parts[j][1] # p[1]),
                   message |-> <<>>]

\* unpack_tags: [kind, tags_unpacked, message]
UnpackTags(tags) ==
    IF tags.isNone \/ tags.value = <<>>
    THEN [kind |-> "ok", tags_unpacked |-> <<>>, message |-> <<>>]
    ELSE LET tags_list == Split(tags.value, ";")
             parts == [i \in 1..Len(tags_list) |-> Split(tags_list[i], "=")]
         IN  \* key, value = tag.split("=") raises ValueError unless there are two parts
             IF \E i \in 1..Len(parts) : Len(parts[i]) # 2
             THEN [kind |-> "ValueError", tags_unpacked |-> <<>>,
                   message |-> UnpackTagsMessage]
             ELSE [kind |-> "ok",
                   tags_unpacked |-> [i \in 1..Len(parts) |-> <<parts[i][1], parts[i][2]>>],
                   message |-> <<>>]

\* the key prefixes offered to the constructors
KeyPrefixes == {<<>>, <<"s">>, <<"s", "/">>, <<"/">>, <<"/", "s">>}

OptionalKeyPrefixes == {NoneStr} \cup {Str(p) : p \in KeyPrefixes}

\* the extra_tags_str of the settings
SettingsTagStrings == {NoneStr, Str(<<"k", "=", "v">>), Str(<<"k">>)}

\* str.startswith("/")
StartsWithSlash(str) == str # <<>> /\ str[1] = "/"

IdleConfig ==
    [op |-> "", tags |-> NoneStr, outcome |-> "", error |-> "", message |-> <<>>,
     tags_unpacked |-> <<>>, converted |-> <<>>, s3_key_prefix |-> <<>>]

notConfig == <<clock, execVars, prefixes, lifeVars, rd, remote, fcall>>

\* unpack_tags(tags), followed when it returns by
\* convert_tags_for_aws_interface("instance", ...) of its result
CallUnpackTags(tags) ==
    /\ cfg.op = ""
    /\ LET r == UnpackTags(tags)
       IN  cfg' = IF r.kind = "ok"
                  THEN [IdleConfig EXCEPT
                          !.op = "unpack_tags", !.tags = tags, !.outcome = "returned",
                          !.tags_unpacked = r.tags_unpacked,
                          !.converted =
                              ConvertTagsForAwsInterface("instance", r.tags_unpacked)]
                  ELSE [IdleConfig EXCEPT
                          !.op = "unpack_tags", !.tags = tags, !.outcome = "raised",
                          !.error = r.kind, !.message = r.message]
    /\ UNCHANGED notConfig

\* Ec2SandboxEnvironmentConfig(**fields): pydantic checks the types of the fields only
Constructed(op, s3_key_prefix, extra_tags, others_valid) ==
    IF s3_key_prefix.isNone \/ ~others_valid
    THEN [IdleConfig EXCEPT !.op = op, !.outcome = "raised", !.error = "ValidationError"]
    ELSE [IdleConfig EXCEPT !.op = op, !.outcome = "constructed",
                            !.s3_key_prefix = s3_key_prefix.value,
                            !.tags_unpacked = extra_tags]

\* Ec2SandboxEnvironmentConfig.from_settings(**kwargs); kwargs is a dict that may
\* hold s3_key_prefix
FromSettings(settings_prefix, extra_tags_str, region_known, others_valid, kwargs) ==
    /\ cfg.op = ""
    /\ LET unpacked == UnpackTags(extra_tags_str)
           given == DictGet(kwargs, "s3_key_prefix", settings_prefix)
           s3_key_prefix == IF given.isNone THEN Str(<<>>) ELSE given
           raised == [IdleConfig EXCEPT !.op = "from_settings", !.tags = extra_tags_str,
                                        !.outcome = "raised", !.error = "ValueError"]
       IN  cfg' = IF unpacked.kind # "ok"
                  THEN [raised EXCEPT !.message = unpacked.message]
                  ELSE IF ~region_known THEN raised
                  ELSE IF StartsWithSlash(s3_key_prefix.value) THEN raised
                  ELSE [Constructed("from_settings", s3_key_prefix,
                                    unpacked.tags_unpacked, others_valid)
                            EXCEPT !.tags = extra_tags_str]
    /\ UNCHANGED notConfig

\* Ec2SandboxEnvironmentConfig(..., s3_key_prefix=..., ...)
Construct(s3_key_prefix, others_valid) ==
    /\ cfg.op = ""
    /\ cfg' = Constructed("Ec2SandboxEnvironmentConfig", s3_key_prefix, <<>>, others_valid)
    /\ UNCHANGED notConfig

\* Ec2SandboxEnvironment.config_deserialize(config), config a dict
ConfigDeserialize(config, others_valid) ==
    /\ cfg.op = ""
    /\ cfg' = Constructed("config_deserialize",
                          DictGet(config, "s3_key_prefix", NoneStr), <<>>, others_valid)
    /\ UNCHANGED notConfig

InitConfig ==
    /\ clock = 0
    /\ bucket = (ForeignKey :> <<"a">>)
    /\ relay = <<>>
    /\ agent = <<>>
    /\ call = [e \in Envs |-> IdleCall("off")]
    /\ log = [e \in Envs |-> <<>>]
    /\ prefixes = <<>>
    /\ instances = <<>>
    /\ inventory = <<>>
    /\ init = <<>>
    /\ cleanup = <<>>
    /\ ec2log = <<>>
    /\ rd = <<>>
    /\ cfg = IdleConfig
    /\ remote = <<>>
    /\ fcall = <<>>

\* the dicts that hold s3_key_prefix or do not
PrefixDicts == {<<>>} \cup {[name \in {"s3_key_prefix"} |-> p] : p \in OptionalKeyPrefixes}

NextConfig ==
    \/ /\ cfg.op = ""
       /\ \E tags \in {NoneStr} \cup {Str(t) : t \in TagStrings} : CallUnpackTags(tags)
    \/ \E settings_prefix \in OptionalKeyPrefixes, extra_tags_str \in SettingsTagStrings,
          region_known \in BOOLEAN, others_valid \in BOOLEAN, kwargs \in PrefixDicts :
         FromSettings(settings_prefix, extra_tags_str, region_known, others_valid, kwargs)
    \/ \E s3_key_prefix \in OptionalKeyPrefixes, others_valid \in BOOLEAN :
         Construct(s3_key_prefix, others_valid)
    \/ \E config \in PrefixDicts, others_valid \in BOOLEAN :
         ConfigDeserialize(config, others_valid)

SpecConfig == InitConfig /\ [][NextConfig]_vars

\* C13 (as claimed): no construction path yields a configuration whose key prefix
\* begins with '/'.
C13_NoLeadingSlashPrefix ==
    cfg.outcome = "constructed" => ~StartsWithSlash(cfg.s3_key_prefix)

\* keys and values without '=' and ';'
TagWords == SeqsUpTo({"k", "v"}, 1)

TagPairs == {<<key, value>> : key \in TagWords, value \in TagWords}

\* the tag string k1=v1;k2=v2;... of a sequence of pairs
RECURSIVE FormatTags(_)
FormatTags(pairs) ==
    IF pairs = <<>> THEN <<>>
    ELSE LET first == pairs[1][1] \o <<"=">> \o pairs[1][2]
         IN  IF Len(pairs) = 1 THEN first
             ELSE first \o <<";">> \o FormatTags(Tail(pairs))

\* every non-empty sequence of pairs whose tag string is short enough to be passed,
\* with its tag string
FormattedPairs ==
    {x \in {<<FormatTags(pairs), pairs>> :
               pairs \in SeqsUpTo(TagPairs, (MaxTagLen + 1) \div 2) \ {<<>>}} :
        Len(x[1]) <= MaxTagLen}

\* tag string k1=v1;k2=v2;... -> the sequences of pairs it is the tag string of
PairsOf ==
    [str \in {x[1] : x \in FormattedPairs} |->
        {x[2] : x \in {y \in FormattedPairs : y[1] = str}}]

\* C17: for every tag string k1=v1;k2=v2;... unpack_tags returns the pairs
\* (k1,v1),(k2,v2),... in that order, duplicate keys kept, and
\* convert_tags_for_aws_interface emits one Key/Value entry per pair in the same
\* order, from which the pair sequence is recovered unchanged.
C17_TagsRoundTrip ==
    (cfg.op = "unpack_tags" /\ ~cfg.tags.isNone /\ cfg.tags.value \in DOMAIN PairsOf) =>
        \A pairs \in PairsOf[cfg.tags.value] :
            /\ cfg.outcome = "returned"
            /\ cfg.tags_unpacked = pairs
            /\ Len(cfg.converted) = 1
            /\ cfg.converted[1].ResourceType = "instance"
            /\ cfg.converted[1].Tags =
                   [i \in 1..Len(pairs) |-> [Key |-> pairs[i][1], Value |-> pairs[i][2]]]
            /\ [i \in 1..Len(cfg.converted[1].Tags) |->
                   <<cfg.converted[1].Tags[i].Key, cfg.converted[1].Tags[i].Value>>]
                 = pairs

\* "k=v;k=": one key twice, with different values
C17_Witness ==
    /\ cfg.op = "unpack_tags"
    /\ cfg.tags = Str(<<"k", "=", "v", ";", "k", "=">>)
    /\ cfg.outcome = "returned"
    /\ cfg.tags_unpacked = <<<<<<"k">>, <<"v">>>>, <<<<"k">>, <<>>>>>>
    /\ Len(cfg.converted[1].Tags) = 2

\* some ';'-separated pair of str has no '='
SomePairWithoutEquals(str) ==
    \E i \in 1..(Len(str) + 1), j \in 0..Len(str) :
        /\ j >= i - 1
        /\ i = 1 \/ str[i - 1] = ";"
        /\ j = Len(str) \/ str[j + 1] = ";"
        /\ \A h \in i..j : str[h] \notin {";", "="}

\* str occurs in message
Contains(message, str) ==
    \E i \in 0..(Len(message) - Len(str)) : SubSeq(message, i + 1, i + Len(str)) = str

\* C18 (as claimed): for every non-empty tag string in which some ';'-separated pair
\* has no '=', unpack_tags raises a format error whose message contains the input
\* string, and returns no tag sequence.
C18_MalformedTagsNamed ==
    (/\ cfg.op = "unpack_tags"
     /\ ~cfg.tags.isNone
     /\ cfg.tags.value # <<>>
     /\ SomePairWithoutEquals(cfg.tags.value)) =>
        /\ cfg.outcome = "raised"
        /\ cfg.error = "ValueError"
        /\ cfg.tags_unpacked = <<>>
        /\ Contains(cfg.message, cfg.tags.value)

(***************************************************************************)
(* Further claims about _run_command (checked under Spec).                 *)
(***************************************************************************)
\* C19 (as claimed): when the completion wait is exhausted with the command InProgress
\* and the cancel request has been issued, exec raises the timeout error, whether the
\* cancel request succeeded or failed.
C19_TimeoutDespiteCancelFailure ==
    \A e \in Envs :
        (Exhausted(e, {"InProgress"}) /\ CancelIssued(e) /\ call[e].pc = "raised") =>
            call[e].error = "TimeoutError"

\* the stdout fetch of the call on e raised
StdoutFetchRaised(e) ==
    /\ call[e].pc = "raised"
    /\ call[e].error \in {"OutputLimitExceededError", "UnicodeDecodeError"}
    /\ ~Issued(e, "read", stderr_key(e))

CodeResponse(e) ==
    IF call[e].wait_end = "success" THEN relay[call[e].command_id]
    ELSE call[e].last_response

\* C21 (as claimed): whenever the response the return code is taken from carries no
\* ResponseCode, on the success path as on the failure path, the ExecResult that exec
\* returns has a non-zero returncode and success = false.
C21_NoCodeMeansFailure ==
    \A e \in Envs :
        (call[e].pc = "returned" /\ "ResponseCode" \notin DOMAIN CodeResponse(e)) =>
            /\ call[e].result.returncode # 0
            /\ ~call[e].result.success

\* the return code lines 334 and 354-356 give the call on e
CodeOf(e) ==
    IF call[e].wait_end = "success" THEN DictGet(CodeResponse(e), "ResponseCode", 0)
    ELSE DictGet(CodeResponse(e), "ResponseCode", 1)

\* C22: no failure of a post-retrieval delete is propagated.  Once the delete of the
\* stdout object has been requested the call never raises; the delete of the stderr
\* object and the listing of the prefix are requested after it whatever became of the
\* requests before them; and the ExecResult returned is the one built from the return
\* code and the outputs the command produced, whether or not the objects were deleted.
C22_DeleteFailuresSwallowed ==
    \A e \in Envs :
        /\ Issued(e, "delete_object", stdout_key(e)) =>
              /\ call[e].pc \in {"delete_stderr", "delete_prefix", "returned"}
              /\ call[e].error = ""
        /\ call[e].pc \in {"delete_prefix", "returned"} =>
              Issued(e, "delete_object", stderr_key(e))
        /\ call[e].pc = "returned" =>
              /\ Issued(e, "delete_object", stdout_key(e))
              /\ Issued(e, "list_objects_v2",
                        InvocationPrefix(call[e].s3_key_prefix, call[e].command_id))
              /\ call[e].result =
                    [kind |-> "ExecResult", success |-> (CodeOf(e) = 0),
                     returncode |-> CodeOf(e),
                     stdout |-> Decode(agent[call[e].command_id].out),
                     stderr |-> Decode(agent[call[e].command_id].err)]

\* both object deletes and the cleanup of the prefix failed: the objects are still in
\* the bucket, every request was made and the result was returned
C22_Witness ==
    \E e \in Envs :
        /\ call[e].pc = "returned"
        /\ stdout_key(e) \in DOMAIN bucket
        /\ stderr_key(e) \in DOMAIN bucket
        /\ Issued(e, "delete_object", stdout_key(e))
        /\ Issued(e, "delete_object", stderr_key(e))
        /\ \E i \in 1..Len(log[e]) : log[e][i].api = "delete_objects"
        /\ call[e].result = ExecResult(1, <<"a">>, <<"e">>)

\* C24 (as claimed): for every integer timeout passed to exec the completion wait has
\* an attempt ceiling equal to that timeout and the same value is sent to the relay as
\* the execution timeout; with no timeout both are 3600; and the wait has made fewer
\* polls than the ceiling as long as it goes on.
C24_CeilingIsEveryTimeout ==
    \A e \in Envs :
        call[e].pc = "waiting" =>
            /\ ~call[e].timeout.isNone =>
                  /\ call[e].max_attempts = call[e].timeout.value
                  /\ call[e].execution_timeout = ToString(call[e].timeout.value)
            /\ call[e].timeout.isNone =>
                  /\ call[e].max_attempts = 3600
                  /\ call[e].execution_timeout = "3600"
            /\ call[e].num_attempts < call[e].max_attempts

\* C24 (amended): for every positive integer timeout passed to exec the completion wait
\* has an attempt ceiling equal to that timeout and the same value, as a decimal string,
\* is sent to the relay as the execution timeout; with no timeout, or with timeout 0,
\* both are 3600; and the wait has made fewer polls than the ceiling as long as it goes
\* on, so it ends at the latest with the poll that reaches the ceiling.
C24_CeilingIsPositiveTimeout ==
    \A e \in Envs :
        call[e].pc = "waiting" =>
            /\ (~call[e].timeout.isNone /\ call[e].timeout.value > 0) =>
                  /\ call[e].max_attempts = call[e].timeout.value
                  /\ call[e].execution_timeout = ToString(call[e].timeout.value)
            /\ (call[e].timeout.isNone \/ call[e].timeout.value = 0) =>
                  /\ call[e].max_attempts = 3600
                  /\ call[e].execution_timeout = "3600"
            /\ call[e].num_attempts < call[e].max_attempts

\* exec(timeout=2) has polled once and the next poll is the last
C24_Witness ==
    \E e \in Envs :
        /\ call[e].pc = "waiting"
        /\ call[e].timeout = IntTimeout(2)
        /\ call[e].max_attempts = 2
        /\ call[e].execution_timeout = "2"
        /\ call[e].num_attempts = 1

\* the command of the call on e ended with this exit code, which the relay reports
EndedWith(e, codes) ==
    /\ call[e].command_id \in DOMAIN relay
    /\ "Status" \in DOMAIN relay[call[e].command_id]
    /\ relay[call[e].command_id]["Status"] = "Failed"
    /\ "ResponseCode" \in DOMAIN relay[call[e].command_id]
    /\ relay[call[e].command_id]["ResponseCode"] \in codes

\* the stderr the command of the call on e wrote holds the execution-failure marker
MarkerWritten(e) ==
    \E i \in 1..Len(agent[call[e].command_id].err) :
        agent[call[e].command_id].err[i] = "M"

RaisedPermissionError(e) ==
    /\ call[e].pc = "raised"
    /\ call[e].error = "PermissionError"
    /\ call[e].result = NoResult

ReturnedFailure(e) ==
    /\ call[e].pc = "returned"
    /\ call[e].result.kind = "ExecResult"
    /\ ~call[e].result.success

\* C25 (as claimed): a call whose command ended with exit code 126 and the marker in
\* its stderr raises PermissionError and returns no ExecResult; a call whose command
\* ended with a nonzero exit and no marker returns an ExecResult with success = false;
\* and no call raises PermissionError without the marker.
C25_PermissionErrorOn126 ==
    \A e \in Envs :
        /\ (Finished(e) /\ EndedWith(e, {126}) /\ MarkerWritten(e)) =>
              RaisedPermissionError(e)
        /\ (Finished(e) /\ EndedWith(e, {1, 126}) /\ ~MarkerWritten(e)) =>
              ReturnedFailure(e)
        /\ (call[e].pc = "raised" /\ call[e].error = "PermissionError") =>
              MarkerWritten(e)

\* C25 (amended): the same, for commands whose stdout and stderr objects are each
\* absent or below the output limit and valid UTF-8.
C25_PermissionErrorOn126SmallOutput ==
    \A e \in Envs :
        /\ (/\ Finished(e) /\ EndedWith(e, {126}) /\ MarkerWritten(e)
            /\ Returnable(agent[call[e].command_id].out)
            /\ Returnable(agent[call[e].command_id].err)) =>
              RaisedPermissionError(e)
        /\ (/\ Finished(e) /\ EndedWith(e, {1, 126}) /\ ~MarkerWritten(e)
            /\ Returnable(agent[call[e].command_id].out)
            /\ Returnable(agent[call[e].command_id].err)) =>
              ReturnedFailure(e)
        /\ (call[e].pc = "raised" /\ call[e].error = "PermissionError") =>
              MarkerWritten(e)

C25_Witness ==
    \E e \in Envs :
        /\ RaisedPermissionError(e)
        /\ EndedWith(e, {126})
        /\ agent[call[e].command_id].err = <<"M">>
        /\ agent[call[e].command_id].out = <<"a">>

\* C29: every ExecResult that _run_command returns, after a wait that succeeded as
\* after one that raised WaiterError, has success = true exactly when its returncode
\* is 0, and its returncode is the one taken from the relay's response.
C29_SuccessIffZero ==
    \A e \in Envs :
        call[e].result.kind = "ExecResult" =>
            /\ call[e].pc = "returned"
            /\ call[e].wait_end \in {"success", "failure", "exhausted"}
            /\ call[e].result.success <=> (call[e].result.returncode = 0)
            /\ call[e].result.returncode = CodeOf(e)

\* the wait raised WaiterError on a cancelled command: returncode -1, no success
C29_Witness ==
    \E e \in Envs :
        /\ call[e].pc = "returned"
        /\ call[e].wait_end = "failure"
        /\ call[e].last_response = [Status |-> "Cancelled", ResponseCode |-> -1]
        /\ call[e].result.returncode = -1
        /\ ~call[e].result.success

(***************************************************************************)
(* SpecShare: exec on two environments that share the bucket, their calls  *)
(* interleaved request by request.  Each call has a timeout of one poll,   *)
(* and the commands end in one of two ways and write at most one byte to   *)
(* each stream.                                                            *)
(***************************************************************************)
ShareFinals ==
    {[Status |-> "Success", ResponseCode |-> 0], [Status |-> "Failed", ResponseCode |-> 1]}

InitShare ==
    /\ clock = 0
    /\ bucket = (ForeignKey :> <<"a">>)
    /\ relay = <<>>
    /\ agent = <<>>
    /\ call = [e \in Envs |-> IdleCall("idle")]
    /\ log = [e \in Envs |-> <<>>]
    /\ prefixes = <<>>
    /\ instances = <<>>
    /\ inventory = <<>>
    /\ init = <<>>
    /\ cleanup = <<>>
    /\ ec2log = <<>>
    /\ rd = <<>>
    /\ cfg = <<>>
    /\ remote = <<>>
    /\ fcall = <<>>

NextShare ==
    \E e \in Envs :
        \/ \E rand \in RandSuffixes : Exec(e, IntTimeout(1), rand)
        \/ RelayProgress(e)
        \/ Poll(e)
        \/ /\ call[e].pc = "waiting"
           /\ \E final \in ShareFinals : PollEndedWith(e, final)
        \/ /\ call[e].pc \in {"read_ok", "waiter_error"}
           /\ \E out \in {<<>>, <<"a">>}, err \in {<<>>, <<"e">>} :
                 AgentStores(e, out, err)
        \/ CancelCommand(e)
        \/ RaiseTimeout(e)
        \/ RetrieveOnSuccess(e)
        \/ RetrieveOnError(e)
        \/ DeleteStdout(e)
        \/ DeleteStderr(e)
        \/ DeletePrefix(e)

SpecShare == InitShare /\ [][NextShare]_vars

\* the keys that start with the '{s3_key_prefix}{command_id}/' path of the call on e
OwnKeys(e) ==
    {call[e].s3_key_prefix \o call[e].command_id \o "/" \o suf : suf \in KeySuffixes}

\* the command of the call on e has stored its outputs and the call has not read them
NotYetRetrieved(e) ==
    /\ call[e].pc \in {"read_ok", "waiter_error"}
    /\ agent[call[e].command_id].state = "stored"

\* C30: every delete a call requests, of one object or of a batch, names only keys
\* that start with the call's own '{s3_key_prefix}{command_id}/' path, and the listing
\* is of that path; and as long as a call has not retrieved the outputs its command
\* stored, they are in the bucket unchanged, whatever the cleanup of the call of the
\* other environment has deleted.
C30_CleanupStaysInOwnPrefix ==
    \A e \in Envs :
        /\ \A i \in 1..Len(log[e]) :
              /\ log[e][i].api = "delete_object" => log[e][i].arg \in OwnKeys(e)
              /\ log[e][i].api = "delete_objects" => log[e][i].keys \subseteq OwnKeys(e)
              /\ log[e][i].api = "list_objects_v2" =>
                    log[e][i].arg = call[e].s3_key_prefix \o call[e].command_id \o "/"
        /\ NotYetRetrieved(e) =>
              LET written == agent[call[e].command_id]
              IN  /\ written.out # <<>> =>
                        /\ stdout_key(e) \in DOMAIN bucket
                        /\ bucket[stdout_key(e)] = written.out
                  /\ written.err # <<>> =>
                        /\ stderr_key(e) \in DOMAIN bucket
                        /\ bucket[stderr_key(e)] = written.err
        /\ ForeignKey \in DOMAIN bucket

\* one call has returned after its cleanup removed its own stdout object with the batch
\* delete of its prefix, while the outputs of the other call, under another key prefix,
\* wait in the bucket to be retrieved
C30_Witness ==
    \E e1 \in Envs, e2 \in Envs :
        /\ e1 # e2
        /\ call[e1].s3_key_prefix # call[e2].s3_key_prefix
        /\ call[e1].pc = "returned"
        /\ call[e1].result.stdout = <<"a">>
        /\ stdout_key(e1) \notin DOMAIN bucket
        /\ \E i \in 1..Len(log[e1]) :
              log[e1][i].api = "delete_objects" /\ stdout_key(e1) \in log[e1][i].keys
        /\ NotYetRetrieved(e2)
        /\ agent[call[e2].command_id].out = <<"a">>
        /\ stdout_key(e2) \in DOMAIN bucket

(***************************************************************************)
(* SpecFile: write_file, read_file and exec(["cat", file]) on the file     *)
(* system of one instance.  A path is its sequence of components.  Every   *)
(* command goes through _run_command, here in three steps: the command is  *)
(* dispatched; the agent runs the script (or the relay fails to deliver    *)
(* it) and stores what it wrote to stdout and stderr; _run_command         *)
(* collects the result, or gives up on a command still InProgress.  The    *)
(* object store carries out every request it is sent.                      *)
(***************************************************************************)
\* longest content written by write_file, in bytes
MaxFileLen == 2
\* SandboxEnvironmentLimits.MAX_READ_FILE_SIZE (100 MiB in inspect_ai), scaled
MaxReadFileSize == 2
\* calls of write_file, read_file and exec in one behaviour
MaxFileCalls == 3

FileInstance == "i-1"
FileCommandId == "cmd-1"

\* the paths the calls are given
FilePaths == {<<"x.txt">>, <<"sub", "directory", "x.txt">>, <<"adir">>}

\* Path.as_posix() / str of a path
RECURSIVE PathStr(_)
PathStr(path) ==
    IF Len(path) = 1 THEN path[1]
    ELSE path[1] \o "/" \o PathStr(Tail(path))

\* Path(file).parent
Parent(file) == IF Len(file) = 1 THEN <<".">> ELSE SubSeq(file, 1, Len(file) - 1)

Directory == [type |-> "dir", body |-> <<>>]

RegularFile(body) == [type |-> "file", body |-> body]

\* test -d path
IsDirectory(fs, path) == path = <<".">> \/ (path \in DOMAIN fs /\ fs[path].type = "dir")

\* the leading parts of a path, the path included
Ancestors(path) == {SubSeq(path, 1, i) : i \in 1..Len(path)}

\* the file systems an instance starts with
InitialRemotes ==
    {(<<"adir">> :> Directory),
     (<<"adir">> :> Directory) @@ (<<"sub">> :> RegularFile(<<"a">>)),
     (<<"adir">> :> Directory) @@ (<<"sub">> :> Directory)
        @@ (<<"sub", "directory">> :> Directory) @@ (<<"x.txt">> :> RegularFile(<<"C">>))}

\* contents: str | bytes
BytesContents(body) == [type |-> "bytes", value |-> body]

StrContents(text) == [type |-> "str", value |-> text]

FileContents ==
    {BytesContents(body) : body \in SeqsUpTo(OutBytes, MaxFileLen)}
        \cup {StrContents(Decode(body)) :
                 body \in {b \in SeqsUpTo(OutBytes, MaxFileLen) : ValidUtf8(b)}}

\* a mutation: the characters of a str are sent as they are
BodyOfUnencoded(contents) == contents.value

\* the Body that put_object sends for contents
BodyOf(contents) ==
    IF contents.type = "str" THEN EncodeUtf8(contents.value) ELSE contents.value

(***************************************************************************)
(* The scripts, as the agent runs them.  What a script writes to stderr is *)
(* a sequence of lines: "D" is the line "Is a directory", "v" the output   *)
(* of curl --verbose, "w" that output when the request line it shows names *)
(* a path holding the word "directory", "e" an error line of mkdir or cat. *)
(***************************************************************************)
MkdirScript(parent) == <<"mkdir", "-p", PathStr(parent)>>

\* test -d file && echo 'Is a directory' 1>&2 && exit 1; curl --output file url
DownloadScript(file, file_key) == <<"test -d; curl --output", PathStr(file), file_key>>

\* test -d file && echo 'Is a directory' 1>&2 && exit 1; curl --upload-file file url
UploadScript(file, file_key) == <<"test -d; curl --upload-file", PathStr(file), file_key>>

CatScript(file) == <<"cat", PathStr(file)>>

\* the path a script names
AllPaths == UNION {Ancestors(path) : path \in FilePaths}

PathOf(str) == CHOOSE path \in AllPaths : PathStr(path) = str

Ran(fs, b, exit, stdout, stderr) ==
    [fs |-> fs, bucket |-> b, exit |-> exit, stdout |-> stdout, stderr |-> stderr]

\* what curl --verbose writes to stderr: the request line holds the object key, which
\* ends with the path of the file (file_key, lines 417 and 507)
CurlVerbose(file) ==
    IF \E i \in 1..Len(file) : file[i] = "directory" THEN <<"w">> ELSE <<"v">>

\* the document the object store answers a request on an expired URL with
ErrorDocument == <<"x">>

\* the run of a script on file system fs with bucket b; url_valid: the presigned URL
\* (ExpiresIn=60) is still valid when curl uses it.  With --fail-with-body curl leaves
\* with 22 on an HTTP error after it has written the answer where the body goes.
RunScript(commands, fs, b, url_valid) ==
    IF commands[1] = "mkdir"
    THEN LET parent == PathOf(commands[3])
         IN  IF \E a \in Ancestors(parent) : a \in DOMAIN fs /\ fs[a].type = "file"
             THEN Ran(fs, b, 1, <<>>, <<"e">>)
             ELSE Ran([q \in DOMAIN fs \cup Ancestors(parent) |->
                          IF q \in Ancestors(parent) THEN Directory ELSE fs[q]],
                      b, 0, <<>>, <<>>)
    ELSE IF commands[1] = "cat"
    THEN LET file == PathOf(commands[2])
         IN  IF file \in DOMAIN fs /\ fs[file].type = "file"
             THEN Ran(fs, b, 0, fs[file].body, <<>>)
             ELSE Ran(fs, b, 1, <<>>, <<"e">>)
    ELSE LET file == PathOf(commands[2])
             file_key == commands[3]
         IN  IF IsDirectory(fs, file)
             THEN Ran(fs, b, 1, <<>>, <<"D">>)
             ELSE IF commands[1] = "test -d; curl --output"
             THEN IF ~IsDirectory(fs, Parent(file))
                  THEN Ran(fs, b, 23, <<>>, CurlVerbose(file))
                  ELSE IF url_valid /\ file_key \in DOMAIN b
                  THEN Ran([q \in DOMAIN fs \cup {file} |->
                               IF q = file THEN RegularFile(b[file_key]) ELSE fs[q]],
                           b, 0, <<>>, CurlVerbose(file))
                  ELSE Ran([q \in DOMAIN fs \cup {file} |->
                               IF q = file THEN RegularFile(ErrorDocument) ELSE fs[q]],
                           b, 22, <<>>, CurlVerbose(file))
             ELSE IF file \notin DOMAIN fs
                  THEN Ran(fs, b, 26, <<>>, CurlVerbose(file))
                  ELSE IF url_valid
                  THEN Ran(fs, With(b, file_key, fs[file].body), 0, <<>>,
                           CurlVerbose(file))
                  ELSE Ran(fs, b, 22, ErrorDocument, CurlVerbose(file))

(***************************************************************************)
(* The calls.  A behaviour is at most one write_file, as its first call,   *)
(* and then calls of read_file and exec.  fcall.written is a history:      *)
(* path -> the contents of the write_file that succeeded on it.            *)
(***************************************************************************)
IdleFile ==
    [calls |-> 0, op |-> "", pc |-> "idle", file |-> <<>>,
     contents |-> BytesContents(<<>>), text |-> FALSE,
     file_key |-> "", s3_key_prefix |-> "", commands |-> <<>>, then |-> "",
     state |-> "none", response_code |-> 0, result |-> NoResult,
     requests |-> <<>>, value |-> <<>>, error |-> "", message |-> <<>>,
     written |-> <<>>]

notFile == <<relay, agent, call, log, prefixes, lifeVars, rd, cfg>>

\* a call may start: none is under way and the behaviour has calls left
MayStart == fcall.pc \in {"idle", "returned", "raised"} /\ fcall.calls < MaxFileCalls

\* the locals of a call that starts
Started(op, file) ==
    [IdleFile EXCEPT !.calls = fcall.calls + 1, !.op = op, !.file = file,
                     !.written = fcall.written]

\* self._s3_key_prefix(operation) + file
FileKey(operation, file) ==
    S3KeyPrefix(CfgKeyPrefix, operation, IsoFormat(clock), "aaaaaaaa") \o PathStr(file)

\* _run_command up to send_command (lines 290-309) with the prefix drawn for it
Dispatched(f, commands, operation, then) ==
    [f EXCEPT !.pc = "wait", !.state = "sent", !.commands = commands, !.then = then,
              !.s3_key_prefix =
                  S3KeyPrefix(CfgKeyPrefix, operation, IsoFormat(clock), "aaaaaaab"),
              !.requests = Append(@, [api |-> "send_command", arg |-> commands])]

Raised(f, error) == [f EXCEPT !.pc = "raised", !.error = error]

\* write_file lines 507-547: put_object, then the download script is dispatched
Uploaded(f) ==
    LET file_key == FileKey("write_file", f.file)
        put == [f EXCEPT !.file_key = file_key,
                         !.requests = Append(@, [api |-> "put_object", arg |-> file_key])]
    IN  Dispatched(put, DownloadScript(f.file, file_key), "write_file", "download_done")

\* write_file lines 498-502, and on to line 547 when the parent is "."
WriteFileStarts(file, contents) ==
    /\ MayStart
    /\ fcall.calls = 0
    /\ clock' = clock + 1
    /\ LET f == [Started("write_file", file) EXCEPT !.contents = contents]
       IN  IF Parent(file) # <<".">>
           THEN /\ fcall' = Dispatched(f, MkdirScript(Parent(file)), "exec", "mkdir_done")
                /\ UNCHANGED bucket
           ELSE /\ fcall' = Uploaded(f)
                /\ bucket' = With(bucket, FileKey("write_file", file), BodyOf(contents))
    /\ UNCHANGED <<remote, notFile>>

\* a mutation: the result of mkdir -p is not looked at
WriteFileAfterMkdirUnchecked ==
    /\ fcall.pc = "mkdir_done"
    /\ fcall' = Uploaded(fcall)
    /\ bucket' = With(bucket, FileKey("write_file", fcall.file), BodyOf(fcall.contents))
    /\ UNCHANGED <<clock, remote, notFile>>

\* write_file lines 503-547, once exec(mkdir -p) has returned
WriteFileAfterMkdir ==
    /\ fcall.pc = "mkdir_done"
    /\ IF ~fcall.result.success
       THEN /\ fcall' = Raised(fcall, "RuntimeError")
            /\ UNCHANGED bucket
       ELSE /\ fcall' = Uploaded(fcall)
            /\ bucket' = With(bucket, FileKey("write_file", fcall.file),
                              BodyOf(fcall.contents))
    /\ UNCHANGED <<clock, remote, notFile>>

\* a mutation: the text is compared as it is
CasefoldSkipped(text) == text

\* str.casefold() of the lines of stderr
Casefold(text) == [i \in 1..Len(text) |-> IF text[i] = "D" THEN "d" ELSE text[i]]

\* write_file lines 549-561
WriteFileEnds ==
    /\ fcall.pc = "download_done"
    /\ bucket' = Without(bucket, {fcall.file_key})
    /\ LET f == [fcall EXCEPT
                   !.requests = Append(@, [api |-> "delete_object", arg |-> fcall.file_key])]
           stderr == Casefold(fcall.result.stderr)
       IN  fcall' =
             IF fcall.result.success
             THEN [f EXCEPT !.pc = "returned",
                            !.written = (fcall.file :> fcall.contents) @@ @]
             ELSE IF \E i \in 1..Len(stderr) : stderr[i] = "d"
                  THEN [Raised(f, "IsADirectoryError") EXCEPT !.message =
                          <<"Failed to write file: ", PathStr(fcall.file),
                            " because it is a directory already">>]
                  ELSE [Raised(f, "IOError") EXCEPT !.message =
                          <<"Failed to write file ", PathStr(fcall.file), ": ">>
                              \o fcall.result.stderr]
    /\ UNCHANGED <<clock, remote, notFile>>

\* read_file lines 416-451
ReadFileStarts(file, text) ==
    /\ MayStart
    /\ clock' = clock + 1
    /\ LET file_key == FileKey("read_file", file)
           f == [Started("read_file", file) EXCEPT !.text = text, !.file_key = file_key]
       IN  fcall' = Dispatched(f, UploadScript(file, file_key), "exec", "upload_done")
    /\ UNCHANGED <<bucket, remote, notFile>>

\* read_file lines 453-495
ReadFileEnds ==
    /\ fcall.pc = "upload_done"
    /\ LET size == GetS3FileSize(bucket, fcall.file_key)
           stderr == fcall.result.stderr
       IN  IF ~fcall.result.success
           THEN /\ fcall' = IF \E i \in 1..Len(stderr) : stderr[i] = "D"
                            THEN Raised(fcall, "IsADirectoryError")
                            ELSE Raised(fcall, "FileNotFoundError")
                /\ UNCHANGED bucket
           ELSE IF size.kind # "ok"
           THEN /\ fcall' = Raised(fcall, "FileNotFoundError")
                /\ UNCHANGED bucket
           ELSE IF size.size >= MaxReadFileSize
           THEN /\ fcall' = Raised(fcall, "OutputLimitExceededError")
                /\ UNCHANGED bucket
           ELSE LET response_body == GetObject(bucket, fcall.file_key).body
                    f == [fcall EXCEPT !.requests =
                            Append(@, [api |-> "delete_object", arg |-> fcall.file_key])]
                IN  /\ bucket' = Without(bucket, {fcall.file_key})
                    /\ fcall' =
                         IF ~fcall.text
                         THEN [f EXCEPT !.pc = "returned",
                                        !.value = BytesContents(response_body)]
                         ELSE IF ValidUtf8(response_body)
                         THEN [f EXCEPT !.pc = "returned",
                                        !.value = StrContents(Decode(response_body))]
                         ELSE Raised(f, "UnicodeDecodeError")
    /\ UNCHANGED <<clock, remote, notFile>>

\* exec(["cat", file]), lines 154-190
ExecCatStarts(file) ==
    /\ MayStart
    /\ clock' = clock + 1
    /\ fcall' = Dispatched(Started("exec", file), CatScript(file), "exec", "exec_done")
    /\ UNCHANGED <<bucket, remote, notFile>>

\* exec returns what _run_command returned
ExecCatEnds ==
    /\ fcall.pc = "exec_done"
    /\ fcall' = [fcall EXCEPT !.pc = "returned", !.value = fcall.result]
    /\ UNCHANGED <<clock, bucket, remote, notFile>>

(***************************************************************************)
(* _run_command for the command a call has dispatched.                     *)
(***************************************************************************)
FileStdoutKey == StdoutKey(fcall.s3_key_prefix, FileCommandId, FileInstance)

FileStderrKey == StderrKey(fcall.s3_key_prefix, FileCommandId, FileInstance)

\* what becomes of a command: it runs, it runs after the presigned URL it uses has
\* expired, or the relay ends the invocation without having delivered it
Fates == {"runs", "expired", "undelivered"}

\* the agent runs the script and stores its non-empty outputs, or the relay ends the
\* invocation without having delivered it (ResponseCode -1, no output)
CommandRuns(fate) ==
    /\ fcall.pc = "wait"
    /\ fcall.state = "sent"
    /\ fate = "expired" => fcall.commands[1] \notin {"mkdir", "cat"}
    /\ IF fate # "undelivered"
       THEN LET r == RunScript(fcall.commands, remote, bucket, fate = "runs")
                b1 == IF r.stdout = <<>> THEN r.bucket
                      ELSE With(r.bucket, FileStdoutKey, r.stdout)
            IN  /\ remote' = r.fs
                /\ bucket' = IF r.stderr = <<>> THEN b1
                             ELSE With(b1, FileStderrKey, r.stderr)
                /\ fcall' = [fcall EXCEPT !.state = "ended", !.response_code = r.exit]
       ELSE /\ fcall' = [fcall EXCEPT !.state = "ended", !.response_code = -1]
            /\ UNCHANGED <<remote, bucket>>
    /\ UNCHANGED <<clock, notFile>>

\* lines 336-346: the wait is exhausted while the command has not run
CommandTimesOut ==
    /\ fcall.pc = "wait"
    /\ fcall.state = "sent"
    /\ fcall' = Raised([fcall EXCEPT !.requests =
                           Append(@, [api |-> "cancel_command", arg |-> FileCommandId])],
                       "TimeoutError")
    /\ UNCHANGED <<clock, bucket, remote, notFile>>

\* a mutation: the outputs are read and the result built, but nothing is deleted
CommandCollectedNoDelete ==
    /\ fcall.pc = "wait"
    /\ fcall.state = "ended"
    /\ LET out == ReadS3FileOrBlank(bucket, FileStdoutKey, MaxExecOutputSize)
           err == ReadS3FileOrBlank(bucket, FileStderrKey, MaxExecOutputSize)
       IN  fcall' = IF out.kind # "ok" THEN Raised(fcall, out.kind)
                    ELSE IF err.kind # "ok" THEN Raised(fcall, err.kind)
                    ELSE [fcall EXCEPT
                            !.pc = fcall.then, !.state = "none",
                            !.result = ExecResult(fcall.response_code, out.text, err.text)]
    /\ UNCHANGED <<clock, bucket, remote, notFile>>

\* lines 321-370 for a command that has ended: the two reads, the three deletes and
\* the ExecResult
CommandCollected ==
    /\ fcall.pc = "wait"
    /\ fcall.state = "ended"
    /\ LET out == ReadS3FileOrBlank(bucket, FileStdoutKey, MaxExecOutputSize)
           err == ReadS3FileOrBlank(bucket, FileStderrKey, MaxExecOutputSize)
           prefix == InvocationPrefix(fcall.s3_key_prefix, FileCommandId)
       IN  IF out.kind # "ok"
           THEN /\ fcall' = Raised(fcall, out.kind)
                /\ UNCHANGED bucket
           ELSE IF err.kind # "ok"
           THEN /\ fcall' = Raised(fcall, err.kind)
                /\ UNCHANGED bucket
           ELSE IF fcall.response_code # 0 /\ HasMarker(err.text)
           THEN /\ fcall' = Raised(fcall, "PermissionError")
                /\ UNCHANGED bucket
           ELSE /\ bucket' = Without(bucket,
                                     {FileStdoutKey, FileStderrKey}
                                        \cup {k \in DOMAIN bucket : StartsWith(k, prefix)})
                /\ fcall' = [fcall EXCEPT
                     !.pc = fcall.then,
                     !.state = "none",
                     !.requests = @ \o <<[api |-> "delete_object", arg |-> FileStdoutKey],
                                         [api |-> "delete_object", arg |-> FileStderrKey],
                                         [api |-> "delete_prefix", arg |-> prefix]>>,
                     !.result = ExecResult(fcall.response_code, out.text, err.text)]
    /\ UNCHANGED <<clock, remote, notFile>>

InitFile ==
    /\ clock = 0
    /\ bucket = (ForeignKey :> <<"a">>)
    /\ relay = <<>>
    /\ agent = <<>>
    /\ call = [e \in Envs |-> IdleCall("off")]
    /\ log = [e \in Envs |-> <<>>]
    /\ prefixes = <<>>
    /\ instances = <<>>
    /\ inventory = <<>>
    /\ init = <<>>
    /\ cleanup = <<>>
    /\ ec2log = <<>>
    /\ rd = <<>>
    /\ cfg = <<>>
    /\ remote \in InitialRemotes
    /\ fcall = IdleFile

NextFile ==
    \/ \E file \in FilePaths, contents \in FileContents : WriteFileStarts(file, contents)
    \/ WriteFileAfterMkdir
    \/ WriteFileEnds
    \/ \E file \in FilePaths, text \in BOOLEAN : ReadFileStarts(file, text)
    \/ ReadFileEnds
    \/ \E file \in FilePaths : ExecCatStarts(file)
    \/ ExecCatEnds
    \/ \E fate \in Fates : CommandRuns(fate)
    \/ CommandTimesOut
    \/ CommandCollected

SpecFile == InitFile /\ [][NextFile]_vars

(***************************************************************************)
(* Claims about write_file and read_file (checked under SpecFile).         *)
(***************************************************************************)
\* the positions in the requests of the call at which this api was requested
RequestsOf(api) == {i \in 1..Len(fcall.requests) : fcall.requests[i].api = api}

\* C14: a write_file on a path whose parent is not "." first dispatches mkdir -p with
\* exactly the parent path; an upload is requested only after the result of the mkdir
\* has been collected and only when the parent is then a directory; and a write_file
\* that raised because the mkdir failed has uploaded no object and has dispatched no
\* other script.
C14_MkdirBeforeUpload ==
    (fcall.op = "write_file" /\ Parent(fcall.file) # <<".">>) =>
        /\ fcall.requests # <<>>
        /\ fcall.requests[1] =
              [api |-> "send_command",
               arg |-> <<"mkdir", "-p", PathStr(SubSeq(fcall.file, 1, Len(fcall.file) - 1))>>]
        /\ \A i \in RequestsOf("put_object") :
              /\ \E j \in RequestsOf("delete_prefix") : j < i
              /\ IsDirectory(remote, Parent(fcall.file))
              /\ \A j \in RequestsOf("send_command") : j = 1 \/ j > i
        /\ (fcall.pc = "raised" /\ fcall.error = "RuntimeError") =>
              /\ RequestsOf("put_object") = {}
              /\ RequestsOf("send_command") = {1}
              /\ \A k \in DOMAIN bucket : k = ForeignKey
        /\ (fcall.pc \in {"returned", "raised"} /\ ~IsDirectory(remote, Parent(fcall.file))) =>
              /\ fcall.pc = "raised"
              /\ RequestsOf("put_object") = {}

\* sub/dir did not exist; the write created it and then the file
C14_Witness ==
    /\ fcall.op = "write_file"
    /\ fcall.file = <<"sub", "directory", "x.txt">>
    /\ fcall.contents = BytesContents(<<"a", "L">>)
    /\ fcall.pc = "returned"
    /\ <<"x.txt">> \notin DOMAIN remote
    /\ remote[<<"sub", "directory">>] = Directory
    /\ remote[fcall.file] = RegularFile(<<"a", "L">>)
    /\ Cardinality(RequestsOf("put_object")) = 1

\* the objects created for the call: the uploaded file object and the objects under
\* the prefix of its command
CreatedForCall ==
    {k \in DOMAIN bucket :
        \/ k \in {fcall.file_key, FileStdoutKey, FileStderrKey}
        \/ StartsWith(k, InvocationPrefix(fcall.s3_key_prefix, FileCommandId))}

CommandRan == fcall.error # "TimeoutError" /\ fcall.response_code \notin {-1, 22}

\* C16: once write_file(p, c) has succeeded (no write follows it), the file p of the
\* instance holds exactly the bytes of c (c itself when c is bytes, its UTF-8 encoding
\* when c is a str); a read_file(p, text=False) that returns, returns those bytes, and
\* it returns whenever they are fewer than the read size limit and its command ran; an
\* exec of cat p that returns with success has them as its stdout.
C16_ReadsBackWhatWasWritten ==
    \A p \in DOMAIN fcall.written :
        LET c == EncodeUtf8(fcall.written[p].value)
        IN  /\ p \in DOMAIN remote
            /\ remote[p] = [type |-> "file", body |-> c]
            /\ (fcall.op = "read_file" /\ fcall.file = p /\ ~fcall.text) =>
                  /\ fcall.pc = "returned" => fcall.value = [type |-> "bytes", value |-> c]
                  /\ (fcall.pc \in {"returned", "raised"} /\ CommandRan
                      /\ Len(c) < MaxReadFileSize) => fcall.pc = "returned"
            /\ (fcall.op = "exec" /\ fcall.file = p /\ fcall.pc = "returned"
                /\ fcall.value.success) =>
                  EncodeUtf8(fcall.value.stdout) = c

\* bytes that are not UTF-8 text, written over nothing and read back
C16_Witness ==
    /\ fcall.op = "read_file"
    /\ fcall.file = <<"sub", "directory", "x.txt">>
    /\ ~fcall.text
    /\ fcall.pc = "returned"
    /\ fcall.written = (<<"sub", "directory", "x.txt">> :> BytesContents(<<"L">>))
    /\ fcall.value = BytesContents(<<"L">>)
    /\ fcall.file_key \notin DOMAIN bucket

\* the call has requested the delete of the object it uploaded or had uploaded
FileObjectDeleteRequested ==
    \E i \in RequestsOf("delete_object") : fcall.requests[i].arg = fcall.file_key

\* C26 (as claimed): whatever the outcome of the invocation of the download script
\* (success, nonzero exit, timeout, permission error, output truncation), a write_file
\* that has uploaded its object and has ended has requested the delete of that object,
\* and the object is no longer in the bucket.
C26_UploadDeletedOnEveryOutcome ==
    (/\ fcall.op = "write_file"
     /\ fcall.pc \in {"returned", "raised"}
     /\ RequestsOf("put_object") # {}) =>
        /\ FileObjectDeleteRequested
        /\ fcall.file_key \notin DOMAIN bucket

\* the invocation of the download script of write_file returned an ExecResult that is
\* not a success, and write_file has ended
DownloadFailed ==
    /\ fcall.op = "write_file"
    /\ fcall.pc \in {"returned", "raised"}
    /\ fcall.then = "download_done"
    /\ fcall.state = "none"
    /\ ~fcall.result.success

\* the message of the error raised ends with the stderr of the script
MessageEndsWith(stderr) ==
    /\ Len(fcall.message) >= Len(stderr)
    /\ SubSeq(fcall.message, Len(fcall.message) - Len(stderr) + 1, Len(fcall.message))
          = stderr

\* write_file raises IsADirectoryError when the stderr of its failed download script
\* has one of these lines, and otherwise IOError with the stderr in its message
RaisesByLines(lines) ==
    IF \E i \in 1..Len(fcall.result.stderr) : fcall.result.stderr[i] \in lines
    THEN fcall.pc = "raised" /\ fcall.error = "IsADirectoryError"
    ELSE /\ fcall.pc = "raised"
         /\ fcall.error = "IOError"
         /\ MessageEndsWith(fcall.result.stderr)

\* C27 (as claimed): when the download script of write_file fails, write_file raises
\* IsADirectoryError if the stderr of the script holds the word "directory" in any
\* letter case, and otherwise IOError with the stderr in its message.
C27_DirectoryWordMeansIsADirectory ==
    DownloadFailed => RaisesByLines({"D", "d", "w"})

\* C27 (amended): when the download script of write_file fails, write_file raises
\* IsADirectoryError if the stderr of the script holds the phrase "is a directory" in
\* any letter case, and otherwise IOError with the stderr in its message.
C27_IsADirectoryPhraseMeansIsADirectory ==
    DownloadFailed => RaisesByLines({"D", "d"})

\* the download of sub/directory/x.txt failed on an expired URL: the stderr names the
\* path, and with it the word "directory", and write_file raised IOError
C27_Witness ==
    /\ DownloadFailed
    /\ fcall.file = <<"sub", "directory", "x.txt">>
    /\ fcall.result.stderr = <<"w">>
    /\ fcall.result.returncode = 22
    /\ fcall.error = "IOError"
    /\ fcall.message = <<"Failed to write file ", "sub/directory/x.txt", ": ", "w">>

\* C28 (as claimed): when the upload script of read_file succeeded, a read_file that has
\* ended has left no uploaded object in the bucket, whether the file was below the read
\* limit (content returned) or at or above it (truncation signal raised).
C28_UploadedObjectDeletedOnSuccess ==
    (/\ fcall.op = "read_file"
     /\ fcall.pc \in {"returned", "raised"}
     /\ fcall.state = "none"
     /\ fcall.result.success) =>
        /\ FileObjectDeleteRequested
        /\ fcall.file_key \notin DOMAIN bucket

====
